---------------------------- MODULE Spec2Model ----------------------------
(***************************************************************************)
(* CoreLox: a model of the managed heap (object.c, memory.c), of the       *)
(* allocation sites of the VM and the compiler, and of the compile /       *)
(* interpret entry points (compiler.c, vm.c).                              *)
(***************************************************************************)
EXTENDS Integers, Sequences, FiniteSets, TLC

(***************************************************************************)
(* Bounds of the model.                                                    *)
(***************************************************************************)
MaxCollections == 3 \* collections in one behaviour
MaxStack == 4       \* value-stack slots used by a session
MaxFrames == 2      \* call frames pushed by a session
MaxCompilers == 2   \* depth of the compiler chain
MaxConstants == 3   \* constants added to one function

(***************************************************************************)
(* Values.  A Value is an object reference (an id >= 1) or a non-object    *)
(* value; the heap model keeps one non-object value, nil.                  *)
(***************************************************************************)
NULL == 0
NIL_VAL == 0
IS_OBJ(value) == value # NIL_VAL

(***************************************************************************)
(* Byte strings.  The strings a program of the model can name or build.    *)
(***************************************************************************)
ClockName == << 99, 108, 111, 99, 107 >>   \* "clock"
A == << 97 >>                               \* "a"
B == << 98 >>                               \* "b"
StringPool == { ClockName, A, B, << >> }

RECURSIVE BitXor(_, _)
BitXor(a, b) ==
  IF a = 0 THEN b
  ELSE IF b = 0 THEN a
  ELSE (((a % 2) + (b % 2)) % 2) + 2 * BitXor(a \div 2, b \div 2)

\* hashString (object.c): FNV-1a on uint32_t.  The 32-bit hash is kept as its
\* two 16-bit halves << high, low >>, so that every product stays a small
\* integer: 2166136261 = 33052 * 2^16 + 40389 and 16777619 = 2^24 + 403.
Half == 256 * 256
FnvBasisHigh == 33052
FnvBasisLow == 40389
FnvPrimeLow == 403

\* hash ^= (uint8_t)key[i]
hashXor(hash, byte) == << hash[1], BitXor(hash[2], byte) >>
\* hash *= 16777619, modulo 2^32
hashMul(hash) ==
  << (hash[1] * FnvPrimeLow + ((hash[2] * FnvPrimeLow) \div Half) + (hash[2] % 256) * 256) % Half,
     (hash[2] * FnvPrimeLow) % Half >>

RECURSIVE hashFrom(_, _, _)
hashFrom(hash, key, i) ==
  IF i > Len(key) THEN hash
  ELSE hashFrom(hashMul(hashXor(hash, key[i])), key, i + 1)

hashString(key) == hashFrom(<< FnvBasisHigh, FnvBasisLow >>, key, 1)

VARIABLES
  heap,          \* object id -> the object's fields (kept for freed objects too)
  objects,       \* vm.objects: the allocation list, newest object first
  nextId,        \* the next fresh object id
  stack,         \* vm.stack[0 .. stackTop)
  frames,        \* vm.frames[0 .. frameCount): <<closure, slots>>
  openUpvalues,  \* vm.openUpvalues: upvalue ids, highest slot first
  globals,       \* vm.globals: key -> value
  strings,       \* vm.strings: the keys of the intern table
  compilers,     \* the compiler chain: the function of each Compiler, innermost last
  freed,         \* ids handed to freeObject so far
  released,      \* id -> number of times the object's own block was released
  lastOp,        \* the operation that produced this state
  gcStart,       \* what the last collection saw when it started
  pc,            \* position inside an operation that is split at its allocations
  inUse,         \* objects the operation in progress still uses after its allocation
  program,       \* the session: the compiler steps and instructions to execute
  ip,            \* the next step of the session
  collections    \* collections run so far

heapVars == << heap, objects, nextId, stack, frames, openUpvalues, globals,
               strings, compilers, freed, released, lastOp, gcStart, pc, inUse,
               program, ip, collections >>

\* The VM as the language sees it: the sources a session hands to interpret
\* one after the other, and what compile and run make of them.
VARIABLES
  vm,            \* VM vm: stack[0 .. stackTop), frames[0 .. frameCount), globals
  lines,         \* the sources of the session, one interpret call each
  line,          \* the source interpret is called on next (or is running)
  output,        \* the values printed so far
  interpreted,   \* one record per interpret call made so far
  parser,        \* the compiler's globals: parser, current, fallthroughMode, fallJump
  compiling      \* where a compile that is followed step by step stands

langVars == << vm, lines, line, output, interpreted, parser, compiling >>

\* The value stack as storage (vm.stack, vm.stackTop and the frames' slots are
\* pointers into a block that realloc may move), a Table with its entries,
\* and a Chunk with the calls made on it.
VARIABLES
  machine,       \* the stack storage, the pointers into it and the frames
  hashTable,     \* a Table, with the calls made on it
  assembly,      \* a Chunk, with the bytes, constants and jumps written to it
  memory         \* bytesAllocated and nextGC, with the blocks reallocate handed out

storageVars == << machine, hashTable, assembly, memory >>

vars == << heapVars, langVars, storageVars >>

\* no interpret call is made
NoLines == /\ vm = << >> /\ lines = << >> /\ line = 0
           /\ output = << >> /\ interpreted = << >>
           /\ parser = << >> /\ compiling = "idle"
\* no stack storage and no Table is looked at
NoStorage == machine = << >> /\ hashTable = << >> /\ assembly = << >> /\ memory = << >>

(***************************************************************************)
(* Object kinds and their fields after construction (object.c).            *)
(***************************************************************************)
Range(f) == { f[x] : x \in DOMAIN f }
SeqRange(s) == { s[i] : i \in 1..Len(s) }

allocateObject(h, id, fields) == [ x \in (DOMAIN h) \cup {id} |-> IF x = id THEN fields ELSE h[x] ]

StringObj(chars, hash) ==
  [ type |-> "OBJ_STRING", isMarked |-> FALSE, chars |-> chars, hash |-> hash ]
FunctionObj ==
  [ type |-> "OBJ_FUNCTION", isMarked |-> FALSE, name |-> NULL, constants |-> << >>,
    capacity |-> 0 ]
NativeObj == [ type |-> "OBJ_NATIVE", isMarked |-> FALSE ]
ClosureObj(function) ==
  [ type |-> "OBJ_CLOSURE", isMarked |-> FALSE, function |-> function, upvalues |-> {} ]
ClassObj(name) ==
  [ type |-> "OBJ_CLASS", isMarked |-> FALSE, name |-> name, methods |-> << >>,
    cachedInit |-> NULL ]
InstanceObj(klass) ==
  [ type |-> "OBJ_INSTANCE", isMarked |-> FALSE, klass |-> klass, fields |-> << >> ]
BoundMethodObj(receiver, method) ==
  [ type |-> "OBJ_BOUND_METHOD", isMarked |-> FALSE, receiver |-> receiver,
    method |-> method ]
UpvalueObj(slot) ==
  [ type |-> "OBJ_UPVALUE", isMarked |-> FALSE, location |-> slot, closed |-> NIL_VAL ]

IsType(h, v, t) == IS_OBJ(v) /\ v \in DOMAIN h /\ h[v].type = t

\* a table is a function from its keys to their values
TableRefs(table) == (DOMAIN table) \cup { v \in Range(table) : IS_OBJ(v) }
tablePut(table, key, value) ==
  [ k \in (DOMAIN table) \cup {key} |-> IF k = key THEN value ELSE table[k] ]

(***************************************************************************)
(* Every reference field of an object, whatever the collector traces.      *)
(***************************************************************************)
RefsOf(h, o) ==
  LET obj == h[o] IN
  { r \in
      CASE obj.type = "OBJ_FUNCTION" -> {obj.name} \cup SeqRange(obj.constants)
        [] obj.type = "OBJ_CLOSURE" -> {obj.function} \cup obj.upvalues
        [] obj.type = "OBJ_CLASS" -> {obj.name, obj.cachedInit} \cup TableRefs(obj.methods)
        [] obj.type = "OBJ_INSTANCE" -> {obj.klass} \cup TableRefs(obj.fields)
        [] obj.type = "OBJ_BOUND_METHOD" -> {obj.receiver, obj.method}
        [] obj.type = "OBJ_UPVALUE" -> {obj.closed}
        [] OTHER -> {}
    : r # NULL }

\* the roots named by markRoots
RootSet ==
  { v \in SeqRange(stack) : IS_OBJ(v) }
    \cup { frames[i][1] : i \in 1..Len(frames) }
    \cup SeqRange(openUpvalues)
    \cup TableRefs(globals)
    \cup SeqRange(compilers)

RECURSIVE ReachFrom(_, _)
ReachFrom(h, seen) ==
  LET more == UNION { RefsOf(h, o) : o \in seen } \ seen
  IN IF more = {} THEN seen ELSE ReachFrom(h, seen \cup more)

Reachable == ReachFrom(heap, RootSet)

(***************************************************************************)
(* Marking (memory.c).  A mark state is the heap with the gray stack.      *)
(***************************************************************************)
SetMarked(h, o, b) == [ h EXCEPT ![o].isMarked = b ]

markObject(st, object) ==
  IF object = NULL THEN st
  ELSE IF st.h[object].isMarked THEN st
  ELSE [ h |-> SetMarked(st.h, object, TRUE), gray |-> Append(st.gray, object) ]

markValue(st, value) == IF IS_OBJ(value) THEN markObject(st, value) ELSE st

RECURSIVE markArrayFrom(_, _, _)
markArrayFrom(st, array, i) ==
  IF i > Len(array) THEN st
  ELSE markArrayFrom(markValue(st, array[i]), array, i + 1)

markArray(st, array) == markArrayFrom(st, array, 1)

Least(S) == CHOOSE x \in S : \A y \in S : x <= y

RECURSIVE markEach(_, _)
markEach(st, S) ==
  IF S = {} THEN st
  ELSE markEach(markObject(st, Least(S)), S \ {Least(S)})

\* table.c is not part of the sources: each entry's key and value are marked
RECURSIVE markTableFrom(_, _, _)
markTableFrom(st, table, keys) ==
  IF keys = {} THEN st
  ELSE LET k == Least(keys)
       IN markTableFrom(markValue(markObject(st, k), table[k]), table, keys \ {k})

markTable(st, table) == markTableFrom(st, table, DOMAIN table)

\* compiler.c declares markCompilerRoots only: the function of every Compiler
\* of the chain is marked, the current one first
RECURSIVE markCompilerRootsFrom(_, _)
markCompilerRootsFrom(st, i) ==
  IF i < 1 THEN st
  ELSE markCompilerRootsFrom(markObject(st, compilers[i]), i - 1)

markCompilerRoots(st) == markCompilerRootsFrom(st, Len(compilers))

RECURSIVE markFramesFrom(_, _)
markFramesFrom(st, i) ==
  IF i > Len(frames) THEN st
  ELSE markFramesFrom(markObject(st, frames[i][1]), i + 1)

blackenObject(st, object) ==
  LET obj == st.h[object] IN
  CASE obj.type = "OBJ_FUNCTION" ->
         markArray(markObject(st, obj.name), obj.constants)
    [] obj.type = "OBJ_CLOSURE" ->
         markEach(markObject(st, obj.function), obj.upvalues)
    [] obj.type = "OBJ_CLASS" ->
         markObject(markTable(st, obj.methods), obj.name)
    [] obj.type = "OBJ_INSTANCE" ->
         markTable(markObject(st, obj.klass), obj.fields)
    [] obj.type = "OBJ_UPVALUE" ->
         markValue(st, obj.closed)
    [] OTHER -> st

markRoots(st) ==
  LET s1 == markArray(st, stack)
      s2 == markFramesFrom(s1, 1)
      s3 == markArray(s2, openUpvalues)
      s4 == markTable(s3, globals)
  IN markCompilerRoots(s4)

RECURSIVE traceReferences(_)
traceReferences(st) ==
  IF Len(st.gray) = 0 THEN st
  ELSE LET object == st.gray[Len(st.gray)]
           rest == [ h |-> st.h, gray |-> SubSeq(st.gray, 1, Len(st.gray) - 1) ]
       IN traceReferences(blackenObject(rest, object))

\* table.c is not part of the sources: the entries whose key is unmarked go
tableRemoveWhite(h, table) == { k \in table : h[k].isMarked }

(***************************************************************************)
(* Sweep (memory.c).  freeObject releases the object's own block for the   *)
(* kinds whose case ends in FREE.                                          *)
(***************************************************************************)
freeObjectReleases(type) ==
  type \in { "OBJ_FUNCTION", "OBJ_NATIVE", "OBJ_CLOSURE", "OBJ_INSTANCE",
             "OBJ_UPVALUE", "OBJ_STRING" }

sweepKeepsMark(type) == type \in { "OBJ_STRING", "OBJ_NATIVE" }

\* C9 mutant: a sweep that stops after the first object it frees
sweepFirst(h, objs) ==
  LET white == { i \in 1..Len(objs) : ~h[objs[i]].isMarked }
      first == IF white = {} THEN 0 ELSE Least(white)
      kept == SelectSeq(objs, LAMBDA o : h[o].isMarked \/ (first # 0 /\ o # objs[first]))
      unreached == IF first = 0 THEN << >> ELSE << objs[first] >>
  IN [ objects |-> kept,
       unreached |-> unreached,
       h |-> [ o \in DOMAIN h |->
                 IF o \in SeqRange(kept) /\ ~sweepKeepsMark(h[o].type)
                 THEN [ h[o] EXCEPT !.isMarked = FALSE ]
                 ELSE h[o] ] ]

sweep(h, objs) ==
  LET kept == SelectSeq(objs, LAMBDA o : h[o].isMarked)
      unreached == SelectSeq(objs, LAMBDA o : ~h[o].isMarked)
  IN [ objects |-> kept,
       unreached |-> unreached,
       h |-> [ o \in DOMAIN h |->
                 IF o \in SeqRange(kept) /\ ~sweepKeepsMark(h[o].type)
                 THEN [ h[o] EXCEPT !.isMarked = FALSE ]
                 ELSE h[o] ] ]

\* C8 mutant: a collection that sweeps without tableRemoveWhite
collectGarbageKeepsWhite ==
  LET marked == traceReferences(markRoots([ h |-> heap, gray |-> << >> ]))
      swept == sweep(marked.h, objects)
  IN [ h |-> swept.h, objects |-> swept.objects, strings |-> strings,
       unreached |-> swept.unreached ]

\* the result of one collection: the heap, the allocation list, the intern
\* table and the objects handed to freeObject
collectGarbage ==
  LET marked == traceReferences(markRoots([ h |-> heap, gray |-> << >> ]))
      white == tableRemoveWhite(marked.h, strings)
      swept == sweep(marked.h, objects)
  IN [ h |-> swept.h, objects |-> swept.objects, strings |-> white,
       unreached |-> swept.unreached ]

(***************************************************************************)
(* Allocation and interning (object.c).  An allocation state is the part   *)
(* of the VM an allocation changes.                                        *)
(***************************************************************************)
Here == [ h |-> heap, objects |-> objects, strings |-> strings, nextId |-> nextId,
          result |-> NULL ]

newObject(hs, fields) ==
  [ h |-> allocateObject(hs.h, hs.nextId, fields),
    objects |-> << hs.nextId >> \o hs.objects,
    strings |-> hs.strings,
    nextId |-> hs.nextId + 1,
    result |-> hs.nextId ]

\* table.c is not part of the sources: the key with these bytes and this hash
tableFindString(h, table, chars, hash) ==
  LET found == { k \in table : h[k].hash = hash /\ h[k].chars = chars }
  IN IF found = {} THEN NULL ELSE Least(found)

allocateString(hs, chars, hash) ==
  LET made == newObject(hs, StringObj(chars, hash))
  IN [ made EXCEPT !.strings = made.strings \cup { made.result } ]

\* C2 mutant: copyString without the lookup in vm.strings
copyStringFresh(hs, chars) == allocateString(hs, chars, hashString(chars))

copyString(hs, chars) ==
  LET hash == hashString(chars)
      interned == tableFindString(hs.h, hs.strings, chars, hash)
  IN IF interned # NULL THEN [ hs EXCEPT !.result = interned ]
     ELSE allocateString(hs, chars, hash)

takeString(hs, chars) ==
  LET hash == hashString(chars)
      interned == tableFindString(hs.h, hs.strings, chars, hash)
  IN IF interned # NULL THEN [ hs EXCEPT !.result = interned ]
     ELSE allocateString(hs, chars, hash)

newFunction(hs) == newObject(hs, FunctionObj)
newNative(hs) == newObject(hs, NativeObj)
newClosure(hs, function) == newObject(hs, ClosureObj(function))
newClass(hs, name) == newObject(hs, ClassObj(name))
newInstance(hs, klass) == newObject(hs, InstanceObj(klass))
newBoundMethod(hs, receiver, method) == newObject(hs, BoundMethodObj(receiver, method))
newUpvalue(hs, slot) == newObject(hs, UpvalueObj(slot))

Commit(hs) ==
  /\ heap' = hs.h
  /\ objects' = hs.objects
  /\ strings' = hs.strings
  /\ nextId' = hs.nextId

(***************************************************************************)
(* The state after initVM (vm.c): an empty stack, no frame, and the native *)
(* clock defined as a global under its interned name.                      *)
(***************************************************************************)
NoCollection ==
  [ reach |-> {}, objects |-> << >>, strings |-> {}, marked |-> {}, unreached |-> << >>,
    repeat |-> FALSE, prior |-> << >> ]
Op(name) == [ op |-> name, arg |-> << >>, result |-> NULL ]

defineNative(hs, name) ==
  LET named == copyString(hs, name)
      native == newNative(named)
  IN [ native EXCEPT !.result = << named.result, native.result >> ]

InitHeap ==
  LET made == defineNative([ h |-> << >>, objects |-> << >>, strings |-> {},
                             nextId |-> 1, result |-> NULL ], ClockName)
  IN /\ heap = made.h
     /\ objects = made.objects
     /\ strings = made.strings
     /\ nextId = made.nextId
     /\ globals = tablePut(<< >>, made.result[1], made.result[2])
     /\ stack = << >>
     /\ frames = << >>
     /\ openUpvalues = << >>
     /\ compilers = << >>
     /\ freed = {}
     /\ released = << >>
     /\ lastOp = Op("mutator")
     /\ gcStart = NoCollection
     /\ pc = "idle"
     /\ inUse = {}
     /\ collections = 0

(***************************************************************************)
(* Stack and frame helpers (vm.c).  Slot i of the stack is stack[i + 1].   *)
(***************************************************************************)
push(stk, value) == Append(stk, value)
pop(stk) == SubSeq(stk, 1, Len(stk) - 1)
peek(stk, distance) == stk[Len(stk) - distance]

Running == Len(frames) > 0
Frame == frames[Len(frames)]
FrameFunction ==
  IF heap[Frame[1]].type = "OBJ_CLOSURE" THEN heap[Frame[1]].function ELSE Frame[1]
Constants == heap[FrameFunction].constants
StringConstants == { i \in 1..Len(Constants) : IsType(heap, Constants[i], "OBJ_STRING") }
FunctionConstants == { i \in 1..Len(Constants) : IsType(heap, Constants[i], "OBJ_FUNCTION") }

\* slots above the callee slot of the running frame hold its temporaries
HasTemp(n) == Running /\ Len(stack) >= Frame[2] + 1 + n
CanPush == Running /\ Len(stack) < MaxStack
\* no open upvalue points at the top slot
TopFree == \A u \in SeqRange(openUpvalues) : heap[u].location # Len(stack) - 1

Quiet == /\ gcStart' = NoCollection
         /\ UNCHANGED << freed, released, pc, inUse >>

(***************************************************************************)
(* Compilation as far as it allocates (compiler.c): initCompiler makes the *)
(* function of a Compiler, string() and function() add constants to the    *)
(* current function, and compile hands the script function to interpret,   *)
(* which pushes it and calls it (vm.c).                                    *)
(***************************************************************************)
current == compilers[Len(compilers)]

InitCompilerScript ==
  /\ pc = "idle" /\ ~Running /\ compilers = << >> /\ stack = << >>
  /\ LET made == newFunction(Here)
     IN /\ Commit(made)
        /\ compilers' = << made.result >>
        /\ lastOp' = Op("mutator")
  /\ UNCHANGED << stack, frames, openUpvalues, globals >>
  /\ Quiet

InitCompilerFunction(name) ==
  /\ pc = "idle" /\ Len(compilers) \in 1..(MaxCompilers - 1)
  /\ Len(heap[current].constants) < MaxConstants
  /\ LET made == newFunction(Here)
         named == copyString(made, name)
     IN /\ Commit([ named EXCEPT !.h[made.result].name = named.result ])
        /\ compilers' = Append(compilers, made.result)
        /\ lastOp' = Op("mutator")
  /\ UNCHANGED << stack, frames, openUpvalues, globals >>
  /\ Quiet

\* chunk.c addConstant; value.c is not part of the sources: the value is
\* appended, the array growing from capacity 0 to 8 and then doubling
GROW_CAPACITY(capacity) == IF capacity < 8 THEN 8 ELSE capacity * 2
addConstant(function, value) ==
  [ function EXCEPT !.constants = Append(@, value),
                    !.capacity = IF @ < Len(function.constants) + 1
                                 THEN GROW_CAPACITY(@) ELSE @ ]

StringLiteral(chars) ==
  /\ pc = "idle" /\ compilers # << >>
  /\ Len(heap[current].constants) < MaxConstants
  /\ LET made == copyString(Here, chars)
     IN /\ Commit([ made EXCEPT !.h[current] = addConstant(@, made.result) ])
        /\ lastOp' = [ op |-> "copyString", arg |-> chars, result |-> made.result ]
  /\ UNCHANGED << stack, frames, openUpvalues, globals, compilers >>
  /\ Quiet

EndCompilerFunction ==
  /\ pc = "idle" /\ Len(compilers) >= 2
  /\ LET function == current
         enclosing == compilers[Len(compilers) - 1]
     IN /\ heap' = [ heap EXCEPT ![enclosing] = addConstant(@, function) ]
        /\ compilers' = pop(compilers)
        /\ lastOp' = Op("mutator")
  /\ UNCHANGED << objects, strings, nextId, stack, frames, openUpvalues, globals >>
  /\ Quiet

Interpret ==
  /\ pc = "idle" /\ Len(compilers) = 1
  /\ LET function == current
     IN /\ compilers' = << >>
        /\ stack' = push(stack, function)
        /\ frames' = << << function, 0 >> >>
        /\ lastOp' = Op("mutator")
  /\ UNCHANGED << heap, objects, strings, nextId, openUpvalues, globals >>
  /\ Quiet

(***************************************************************************)
(* The instructions of run that create, move or drop references.  Those of *)
(* vm.c are modelled from it; the instructions for closures, upvalues,     *)
(* classes, instances and bound methods are not in vm.c and follow the     *)
(* specification of the instruction set.                                   *)
(***************************************************************************)
OpConstant(i) ==
  /\ pc = "idle" /\ CanPush /\ i \in StringConstants
  /\ stack' = push(stack, Constants[i])
  /\ lastOp' = Op("mutator")
  /\ UNCHANGED << heap, objects, strings, nextId, frames, openUpvalues, globals, compilers >>
  /\ Quiet

OpDup ==
  /\ pc = "idle" /\ CanPush /\ HasTemp(1)
  /\ stack' = push(stack, peek(stack, 0))
  /\ lastOp' = Op("mutator")
  /\ UNCHANGED << heap, objects, strings, nextId, frames, openUpvalues, globals, compilers >>
  /\ Quiet

\* closeUpvalues(threshold): every open upvalue at or above the slot takes
\* the slot's value and leaves the open list
closeUpvalues(h, threshold) ==
  [ o \in DOMAIN h |->
      IF o \in SeqRange(openUpvalues) /\ h[o].location >= threshold
      THEN [ h[o] EXCEPT !.closed = stack[h[o].location + 1], !.location = -1 ]
      ELSE h[o] ]
stillOpen(threshold) == SelectSeq(openUpvalues, LAMBDA u : heap[u].location < threshold)

\* OP_POP, and OP_CLOSE_UPVALUE where the slot is captured
OpPop ==
  /\ pc = "idle" /\ HasTemp(1)
  /\ heap' = closeUpvalues(heap, Len(stack) - 1)
  /\ openUpvalues' = stillOpen(Len(stack) - 1)
  /\ stack' = pop(stack)
  /\ lastOp' = Op("mutator")
  /\ UNCHANGED << objects, strings, nextId, frames, globals, compilers >>
  /\ Quiet

OpDefineGlobal(i) ==
  /\ pc = "idle" /\ HasTemp(1) /\ TopFree /\ i \in StringConstants
  /\ globals' = tablePut(globals, Constants[i], peek(stack, 0))
  /\ stack' = pop(stack)
  /\ lastOp' = Op("mutator")
  /\ UNCHANGED << heap, objects, strings, nextId, frames, openUpvalues, compilers >>
  /\ Quiet

OpGetGlobal(i) ==
  /\ pc = "idle" /\ CanPush /\ i \in StringConstants
  /\ Constants[i] \in DOMAIN globals
  /\ stack' = push(stack, globals[Constants[i]])
  /\ lastOp' = Op("mutator")
  /\ UNCHANGED << heap, objects, strings, nextId, frames, openUpvalues, globals, compilers >>
  /\ Quiet

\* OP_ADD on two strings: concatenate, when its allocation starts no collection
concatenate(hs, a, b) == takeString(hs, hs.h[a].chars \o hs.h[b].chars)

OpAdd ==
  /\ pc = "idle" /\ HasTemp(2) /\ TopFree
  /\ IsType(heap, peek(stack, 0), "OBJ_STRING")
  /\ IsType(heap, peek(stack, 1), "OBJ_STRING")
  /\ LET made == concatenate(Here, peek(stack, 1), peek(stack, 0))
     IN /\ Commit(made)
        /\ stack' = push(pop(pop(stack)), made.result)
        /\ lastOp' = [ op |-> "takeString",
                       arg |-> heap[peek(stack, 1)].chars \o heap[peek(stack, 0)].chars,
                       result |-> made.result ]
  /\ UNCHANGED << frames, openUpvalues, globals, compilers >>
  /\ Quiet

\* captureUpvalue(slot): the open upvalue of the slot, a new one if none
captureUpvalue(hs, slot) ==
  LET have == { u \in SeqRange(openUpvalues) : hs.h[u].location = slot }
  IN IF have # {} THEN [ hs EXCEPT !.result = Least(have) ] ELSE newUpvalue(hs, slot)

insertUpvalue(h, open, u) ==
  IF u \in SeqRange(open) THEN open
  ELSE SelectSeq(open, LAMBDA x : h[x].location > h[u].location)
         \o << u >> \o SelectSeq(open, LAMBDA x : h[x].location < h[u].location)

\* OP_CLOSURE over a function constant, capturing no slot (slot = -1) or one
\* local slot of the running frame
OpClosure(i, slot) ==
  /\ pc = "idle" /\ CanPush /\ i \in FunctionConstants
  /\ slot = -1 \/ (slot > Frame[2] /\ slot < Len(stack))
  /\ LET made == newClosure(Here, Constants[i])
         closure == made.result
         captured == captureUpvalue(made, slot)
         done == IF slot = -1 THEN made
                 ELSE [ captured EXCEPT !.h[closure].upvalues = { captured.result } ]
     IN /\ Commit(done)
        /\ openUpvalues' = IF slot = -1 THEN openUpvalues
                           ELSE insertUpvalue(done.h, openUpvalues, captured.result)
        /\ stack' = push(stack, closure)
        /\ lastOp' = Op("mutator")
  /\ UNCHANGED << frames, globals, compilers >>
  /\ Quiet

OpClass(i) ==
  /\ pc = "idle" /\ CanPush /\ i \in StringConstants
  /\ LET made == newClass(Here, Constants[i])
     IN /\ Commit(made)
        /\ stack' = push(stack, made.result)
        /\ lastOp' = Op("mutator")
  /\ UNCHANGED << frames, openUpvalues, globals, compilers >>
  /\ Quiet

OpMethod(i) ==
  /\ pc = "idle" /\ HasTemp(2) /\ TopFree /\ i \in StringConstants
  /\ IsType(heap, peek(stack, 0), "OBJ_CLOSURE")
  /\ IsType(heap, peek(stack, 1), "OBJ_CLASS")
  /\ heap' = [ heap EXCEPT ![peek(stack, 1)].methods =
                 tablePut(@, Constants[i], peek(stack, 0)) ]
  /\ stack' = pop(stack)
  /\ lastOp' = Op("mutator")
  /\ UNCHANGED << objects, strings, nextId, frames, openUpvalues, globals, compilers >>
  /\ Quiet

OpSetProperty(i) ==
  /\ pc = "idle" /\ HasTemp(2) /\ TopFree /\ i \in StringConstants
  /\ IsType(heap, peek(stack, 1), "OBJ_INSTANCE")
  /\ \A u \in SeqRange(openUpvalues) : heap[u].location # Len(stack) - 2
  /\ heap' = [ heap EXCEPT ![peek(stack, 1)].fields =
                 tablePut(@, Constants[i], peek(stack, 0)) ]
  /\ stack' = push(pop(pop(stack)), peek(stack, 0))
  /\ lastOp' = Op("mutator")
  /\ UNCHANGED << objects, strings, nextId, frames, openUpvalues, globals, compilers >>
  /\ Quiet

OpGetProperty(i) ==
  /\ pc = "idle" /\ HasTemp(1) /\ i \in StringConstants
  /\ IsType(heap, peek(stack, 0), "OBJ_INSTANCE")
  /\ LET instance == peek(stack, 0)
         name == Constants[i]
         methods == heap[heap[instance].klass].methods
     IN \/ /\ name \in DOMAIN heap[instance].fields
           /\ stack' = push(pop(stack), heap[instance].fields[name])
           /\ UNCHANGED << heap, objects, strings, nextId >>
        \/ /\ name \notin DOMAIN heap[instance].fields
           /\ name \in DOMAIN methods
           /\ LET made == newBoundMethod(Here, instance, methods[name])
              IN /\ Commit(made)
                 /\ stack' = push(pop(stack), made.result)
  /\ lastOp' = Op("mutator")
  /\ UNCHANGED << frames, openUpvalues, globals, compilers >>
  /\ Quiet

\* OP_CALL with no argument: callValue on the value on top of the stack
OpCall ==
  /\ pc = "idle" /\ HasTemp(1)
  /\ LET callee == peek(stack, 0)
     IN \/ /\ IsType(heap, callee, "OBJ_FUNCTION") \/ IsType(heap, callee, "OBJ_CLOSURE")
           /\ Len(frames) < MaxFrames
           /\ frames' = Append(frames, << callee, Len(stack) - 1 >>)
           /\ UNCHANGED << heap, objects, strings, nextId, stack >>
        \/ /\ IsType(heap, callee, "OBJ_NATIVE")
           /\ TopFree
           /\ stack' = push(pop(stack), NIL_VAL)
           /\ UNCHANGED << heap, objects, strings, nextId, frames >>
        \/ /\ IsType(heap, callee, "OBJ_CLASS")
           /\ LET made == newInstance(Here, callee)
              IN /\ Commit(made)
                 /\ stack' = push(pop(stack), made.result)
           /\ UNCHANGED frames
        \/ /\ IsType(heap, callee, "OBJ_BOUND_METHOD")
           /\ Len(frames) < MaxFrames
           /\ stack' = push(pop(stack), heap[callee].receiver)
           /\ frames' = Append(frames, << heap[callee].method, Len(stack) - 1 >>)
           /\ UNCHANGED << heap, objects, strings, nextId >>
  /\ lastOp' = Op("mutator")
  /\ UNCHANGED << openUpvalues, globals, compilers >>
  /\ Quiet

\* OP_RETURN; a frame with no temporary returns nil (OP_NIL, OP_RETURN)
OpReturn ==
  /\ pc = "idle" /\ Running
  /\ LET result == IF HasTemp(1) THEN peek(stack, 0) ELSE NIL_VAL
         slots == Frame[2]
     IN /\ heap' = closeUpvalues(heap, slots)
        /\ openUpvalues' = stillOpen(slots)
        /\ frames' = pop(frames)
        /\ stack' = IF Len(frames) = 1 THEN << >>
                    ELSE push(SubSeq(stack, 1, slots), result)
  /\ lastOp' = Op("mutator")
  /\ UNCHANGED << objects, strings, nextId, globals, compilers >>
  /\ Quiet

(***************************************************************************)
(* A collection, which reallocate may run at any allocation.               *)
(***************************************************************************)
releaseAll(count, h, unreached) ==
  [ o \in (DOMAIN count) \cup { x \in SeqRange(unreached) : freeObjectReleases(h[x].type) } |->
      (IF o \in DOMAIN count THEN count[o] ELSE 0)
        + Cardinality({ k \in 1..Len(unreached) :
                          unreached[k] = o /\ freeObjectReleases(h[o].type) }) ]

Collect(result) ==
  /\ heap' = result.h
  /\ objects' = result.objects
  /\ strings' = result.strings
  /\ freed' = freed \cup SeqRange(result.unreached)
  /\ released' = releaseAll(released, heap, result.unreached)
  /\ gcStart' = [ reach |-> Reachable, objects |-> objects, strings |-> strings,
                  marked |-> { o \in SeqRange(objects) : heap[o].isMarked },
                  unreached |-> result.unreached,
                  repeat |-> lastOp.op = "collectGarbage",
                  prior |-> gcStart.unreached ]

CollectGarbage ==
  /\ pc = "idle"
  /\ Collect(collectGarbage)
  /\ lastOp' = Op("collectGarbage")
  /\ UNCHANGED << nextId, stack, frames, openUpvalues, globals, compilers, pc, inUse >>

\* a read through a dangling reference: the run may also end here
UseAfterFree ==
  /\ pc = "idle" /\ Reachable \cap freed # {}
  /\ pc' = "undefined"
  /\ UNCHANGED << heap, objects, nextId, stack, frames, openUpvalues, globals, strings,
                  compilers, freed, released, lastOp, gcStart, inUse >>

(***************************************************************************)
(* Sessions.  A session is what one VM is asked to do between initVM and   *)
(* freeVM: REPL lines, each compiled and then run.  The collector can run  *)
(* before any step, as it does under DEBUG_STRESS_GC or when bytesAllocated*)
(* passes nextGC.                                                          *)
(***************************************************************************)
\* var a = "a"; clock(); a;  then  "b";  then  "a" + "" + "b";
GlobalsSession ==
  << << "initCompiler" >>, << "string", A >>, << "string", ClockName >>, << "interpret" >>,
     << "OP_CONSTANT", 1 >>, << "OP_DEFINE_GLOBAL", 1 >>, << "OP_GET_GLOBAL", 2 >>,
     << "OP_CALL" >>, << "OP_POP" >>, << "OP_GET_GLOBAL", 1 >>, << "OP_DUP" >>,
     << "OP_POP" >>, << "OP_POP" >>, << "OP_RETURN" >>,
     << "initCompiler" >>, << "string", B >>, << "interpret" >>,
     << "OP_CONSTANT", 1 >>, << "OP_POP" >>, << "OP_RETURN" >>,
     << "initCompiler" >>, << "string", B >>, << "string", A >>, << "string", << >> >>,
     << "interpret" >>, << "OP_CONSTANT", 2 >>, << "OP_CONSTANT", 3 >>, << "OP_ADD" >>,
     << "OP_CONSTANT", 1 >>, << "OP_ADD" >>, << "OP_POP" >>, << "OP_RETURN" >> >>

\* { var x = "a"; fun a() {} a(); fun a() {} <stored in a global> }
ClosuresSession ==
  << << "initCompiler" >>, << "string", A >>, << "initCompilerFunction", A >>,
     << "endCompilerFunction" >>, << "interpret" >>,
     << "OP_CONSTANT", 1 >>, << "OP_CLOSURE", 2, 1 >>, << "OP_CALL" >>, << "OP_RETURN" >>,
     << "OP_POP" >>, << "OP_CLOSURE", 2, 1 >>, << "OP_DEFINE_GLOBAL", 1 >>,
     << "OP_POP" >>, << "OP_RETURN" >> >>

\* class a { a() {} }  a().clock = "clock";  a().a();
ClassesSession ==
  << << "initCompiler" >>, << "string", A >>, << "initCompilerFunction", A >>,
     << "endCompilerFunction" >>, << "string", ClockName >>, << "interpret" >>,
     << "OP_CLASS", 1 >>, << "OP_CLOSURE", 2, -1 >>, << "OP_METHOD", 1 >>,
     << "OP_CALL" >>, << "OP_DUP" >>, << "OP_CONSTANT", 3 >>, << "OP_SET_PROPERTY", 3 >>,
     << "OP_POP" >>, << "OP_DUP" >>, << "OP_GET_PROPERTY", 3 >>, << "OP_POP" >>,
     << "OP_GET_PROPERTY", 1 >>, << "OP_CALL" >>, << "OP_RETURN" >>, << "OP_POP" >>,
     << "OP_RETURN" >> >>

Sessions == { GlobalsSession, ClosuresSession, ClassesSession }

At(instruction) ==
  /\ ip <= Len(program)
  /\ program[ip][1] = instruction[1]
  /\ program[ip] = instruction
Advance == ip' = ip + 1 /\ UNCHANGED << program, collections, langVars, storageVars >>

InitSession == InitHeap /\ NoLines /\ NoStorage /\ program \in Sessions /\ ip = 1

NextHeap ==
  \/ At(<< "initCompiler" >>) /\ InitCompilerScript /\ Advance
  \/ \E name \in StringPool :
       At(<< "initCompilerFunction", name >>) /\ InitCompilerFunction(name) /\ Advance
  \/ \E chars \in StringPool : At(<< "string", chars >>) /\ StringLiteral(chars) /\ Advance
  \/ At(<< "endCompilerFunction" >>) /\ EndCompilerFunction /\ Advance
  \/ At(<< "interpret" >>) /\ Interpret /\ Advance
  \/ \E i \in 1..MaxConstants : At(<< "OP_CONSTANT", i >>) /\ OpConstant(i) /\ Advance
  \/ At(<< "OP_DUP" >>) /\ OpDup /\ Advance
  \/ At(<< "OP_POP" >>) /\ OpPop /\ Advance
  \/ At(<< "OP_ADD" >>) /\ OpAdd /\ Advance
  \/ \E i \in 1..MaxConstants :
       At(<< "OP_DEFINE_GLOBAL", i >>) /\ OpDefineGlobal(i) /\ Advance
  \/ \E i \in 1..MaxConstants : At(<< "OP_GET_GLOBAL", i >>) /\ OpGetGlobal(i) /\ Advance
  \/ \E i \in 1..MaxConstants, slot \in (-1)..(MaxStack - 1) :
       At(<< "OP_CLOSURE", i, slot >>) /\ OpClosure(i, slot) /\ Advance
  \/ \E i \in 1..MaxConstants : At(<< "OP_CLASS", i >>) /\ OpClass(i) /\ Advance
  \/ \E i \in 1..MaxConstants : At(<< "OP_METHOD", i >>) /\ OpMethod(i) /\ Advance
  \/ \E i \in 1..MaxConstants :
       At(<< "OP_SET_PROPERTY", i >>) /\ OpSetProperty(i) /\ Advance
  \/ \E i \in 1..MaxConstants :
       At(<< "OP_GET_PROPERTY", i >>) /\ OpGetProperty(i) /\ Advance
  \/ At(<< "OP_CALL" >>) /\ OpCall /\ Advance
  \/ At(<< "OP_RETURN" >>) /\ OpReturn /\ Advance
  \/ /\ collections < MaxCollections
     /\ CollectGarbage
     /\ collections' = collections + 1
     /\ UNCHANGED << program, ip, langVars, storageVars >>
  \/ ip <= Len(program) /\ UseAfterFree /\ UNCHANGED << program, ip, collections, langVars, storageVars >>

SpecHeap == InitSession /\ [][NextHeap]_vars

(***************************************************************************)
(* Allocation sites.  reallocate may run a collection whenever a block     *)
(* grows, so an operation that allocates is split here at its allocations: *)
(* pc names the allocation it has reached and inUse holds the objects it   *)
(* goes on to use after it.                                                *)
(***************************************************************************)
AllocationPoints == { "concatenate", "allocateString", "addConstant" }

Operation(name, arg, result) == [ op |-> name, arg |-> arg, result |-> result ]

\* the bytes a read of a string finds: its own, or what a freed block holds
ReadChars(o) == IF o \in freed THEN { heap[o].chars, << >> } ELSE { heap[o].chars }

\* MakeConstantStep(value) into the function: addConstant reaches writeValueArray,
\* which allocates when the constant array is full
MakeConstantStep(h, function, value) ==
  IF h[function].capacity < Len(h[function].constants) + 1
  THEN /\ heap' = h
       /\ pc' = "addConstant"
       /\ inUse' = { value }
  ELSE /\ heap' = [ h EXCEPT ![function] = addConstant(@, value) ]
       /\ pc' = "idle"
       /\ inUse' = {}

\* concatenate up to ALLOCATE(char, length + 1): both operands are popped
ConcatenatePop ==
  /\ pc = "idle" /\ HasTemp(2)
  /\ IsType(heap, peek(stack, 0), "OBJ_STRING")
  /\ IsType(heap, peek(stack, 1), "OBJ_STRING")
  /\ stack' = pop(pop(stack))
  /\ pc' = "concatenate"
  /\ inUse' = { peek(stack, 0), peek(stack, 1) }
  /\ lastOp' = Operation("concatenate", << peek(stack, 1), peek(stack, 0) >>, NULL)
  /\ gcStart' = NoCollection
  /\ UNCHANGED << heap, objects, strings, nextId, frames, openUpvalues, globals,
                  compilers, freed, released >>

\* concatenate after ALLOCATE: the two memcpy, then takeString up to the
\* tableSet of allocateString, or to its end when the bytes are interned
ConcatenateCopy ==
  /\ pc = "concatenate"
  /\ \E ca \in ReadChars(lastOp.arg[1]), cb \in ReadChars(lastOp.arg[2]) :
       LET chars == ca \o cb
           hash == hashString(chars)
           interned == tableFindString(heap, strings, chars, hash)
           made == newObject(Here, StringObj(chars, hash))
       IN IF interned # NULL
          THEN /\ stack' = push(stack, interned)
               /\ pc' = "idle"
               /\ inUse' = {}
               /\ lastOp' = [ lastOp EXCEPT !.result = interned ]
               /\ UNCHANGED << heap, objects, strings, nextId >>
          ELSE /\ Commit([ made EXCEPT !.strings = strings ])
               /\ stack' = push(stack, made.result)
               /\ pc' = "allocateString"
               /\ inUse' = { made.result }
               /\ lastOp' = [ lastOp EXCEPT !.result = made.result ]
  /\ gcStart' = NoCollection
  /\ UNCHANGED << frames, openUpvalues, globals, compilers, freed, released >>

\* string() and identifierConstant: copyString up to the tableSet of
\* allocateString, or on to makeConstant when the bytes are interned
StringConstant(chars) ==
  /\ pc = "idle" /\ compilers # << >>
  /\ Len(heap[current].constants) < MaxConstants
  /\ LET hash == hashString(chars)
         interned == tableFindString(heap, strings, chars, hash)
         made == newObject(Here, StringObj(chars, hash))
     IN IF interned # NULL
        THEN /\ MakeConstantStep(heap, current, interned)
             /\ lastOp' = Operation("string", chars, interned)
             /\ UNCHANGED << objects, strings, nextId, stack >>
        ELSE /\ Commit([ made EXCEPT !.strings = strings ])
             /\ stack' = push(stack, made.result)
             /\ pc' = "allocateString"
             /\ inUse' = { made.result }
             /\ lastOp' = Operation("string", chars, made.result)
  /\ gcStart' = NoCollection
  /\ UNCHANGED << frames, openUpvalues, globals, compilers, freed, released >>

\* allocateString after tableSet: the string is interned and popped, and goes
\* to the caller: concatenate pushes it, the compiler makes it a constant
AllocateStringDone ==
  /\ pc = "allocateString"
  /\ strings' = strings \cup { lastOp.result }
  /\ IF lastOp.op = "concatenate"
     THEN /\ stack' = push(pop(stack), lastOp.result)
          /\ pc' = "idle"
          /\ inUse' = {}
          /\ UNCHANGED heap
     ELSE /\ stack' = pop(stack)
          /\ MakeConstantStep(heap, current, lastOp.result)
  /\ gcStart' = NoCollection
  /\ UNCHANGED << objects, nextId, frames, openUpvalues, globals, compilers, freed,
                  released, lastOp >>

\* function() from endCompiler on: the finished function leaves the compiler
\* chain and is handed to makeConstant for the enclosing function
FunctionEnd ==
  /\ pc = "idle" /\ Len(compilers) >= 2
  /\ compilers' = pop(compilers)
  /\ MakeConstantStep(heap, compilers[Len(compilers) - 1], current)
  /\ lastOp' = Operation("function", << >>, current)
  /\ gcStart' = NoCollection
  /\ UNCHANGED << objects, strings, nextId, stack, frames, openUpvalues, globals,
                  freed, released >>

\* addConstant after the array has grown: the value is stored
AddConstantDone ==
  /\ pc = "addConstant"
  /\ heap' = [ heap EXCEPT ![current] = addConstant(@, lastOp.result) ]
  /\ pc' = "idle"
  /\ inUse' = {}
  /\ gcStart' = NoCollection
  /\ UNCHANGED << objects, strings, nextId, stack, frames, openUpvalues, globals,
                  compilers, freed, released, lastOp >>

\* reallocate: the collection an allocation may run, once
CollectAtAllocation ==
  /\ pc \in AllocationPoints
  /\ gcStart = NoCollection
  /\ Collect(collectGarbage)
  /\ UNCHANGED << nextId, stack, frames, openUpvalues, globals, compilers, pc, inUse,
                  lastOp >>

\* a read through a dangling reference held by the operation in progress
UseAfterFreeInOperation ==
  /\ pc \in AllocationPoints /\ inUse \cap freed # {}
  /\ pc' = "undefined"
  /\ UNCHANGED << heap, objects, nextId, stack, frames, openUpvalues, globals, strings,
                  compilers, freed, released, lastOp, gcStart, inUse >>

\* "a" + "b" + "a";  and  { fun a() { "b"; } }  "a" + "a";
ConcatenateSession ==
  << << "initCompiler" >>, << "string", A >>, << "string", B >>, << "string", A >>,
     << "interpret" >>, << "OP_CONSTANT", 1 >>, << "OP_CONSTANT", 2 >>, << "OP_ADD" >>,
     << "OP_CONSTANT", 3 >>, << "OP_ADD" >>, << "OP_POP" >>, << "OP_RETURN" >> >>
FunctionSession ==
  << << "initCompiler" >>, << "initCompilerFunction", A >>, << "string", B >>,
     << "endCompilerFunction" >>, << "string", A >>, << "interpret" >>,
     << "OP_CONSTANT", 2 >>, << "OP_CONSTANT", 2 >>, << "OP_ADD" >>, << "OP_POP" >>,
     << "OP_RETURN" >> >>

AllocSessions == { ConcatenateSession, FunctionSession }

Stay == UNCHANGED << program, ip, collections, langVars, storageVars >>

InitAlloc == InitHeap /\ NoLines /\ NoStorage /\ program \in AllocSessions /\ ip = 1

NextAlloc ==
  \/ At(<< "initCompiler" >>) /\ InitCompilerScript /\ Advance
  \/ \E name \in StringPool :
       At(<< "initCompilerFunction", name >>) /\ InitCompilerFunction(name) /\ Advance
  \/ \E chars \in StringPool : At(<< "string", chars >>) /\ StringConstant(chars) /\ Advance
  \/ At(<< "endCompilerFunction" >>) /\ FunctionEnd /\ Advance
  \/ At(<< "interpret" >>) /\ Interpret /\ Advance
  \/ \E i \in 1..MaxConstants : At(<< "OP_CONSTANT", i >>) /\ OpConstant(i) /\ Advance
  \/ At(<< "OP_POP" >>) /\ OpPop /\ Advance
  \/ At(<< "OP_ADD" >>) /\ ConcatenatePop /\ Advance
  \/ At(<< "OP_RETURN" >>) /\ OpReturn /\ Advance
  \/ ConcatenateCopy /\ Stay
  \/ AllocateStringDone /\ Stay
  \/ AddConstantDone /\ Stay
  \/ CollectAtAllocation /\ Stay
  \/ UseAfterFreeInOperation /\ Stay

SpecAlloc == InitAlloc /\ [][NextAlloc]_vars

\* C10: at every allocation that can start a collection, each object the
\* operation in progress still uses afterwards is reachable from a root and
\* has not been freed.
C10_InUseRooted ==
  pc \in AllocationPoints => (inUse \subseteq Reachable /\ inUse \cap freed = {})

(***************************************************************************)
(* Properties of the collector and of interning, under SpecHeap.           *)
(***************************************************************************)
AfterCollection == lastOp.op = "collectGarbage"
Unreached == SeqRange(gcStart.unreached)
LiveStrings == { o \in SeqRange(objects) : heap[o].type = "OBJ_STRING" }

\* C1: at the end of every collectGarbage run, each object that was reachable
\* from the roots when the collection started is still on the allocation list
\* and has not been freed.
C1_ReachableSurvive ==
  AfterCollection =>
    \A o \in gcStart.reach \cap SeqRange(gcStart.objects) :
      o \in SeqRange(objects) /\ o \notin Unreached

\* C2: copyString and takeString return the live string with the same bytes
\* when there is one, and the intern table holds at most one string per byte
\* sequence.
C2_Interned ==
  /\ \A s, t \in strings : heap[s].chars = heap[t].chars => s = t
  /\ lastOp.op \in { "copyString", "takeString" } =>
       /\ lastOp.result \in strings
       /\ heap[lastOp.result].chars = lastOp.arg
       /\ \A o \in LiveStrings : heap[o].chars = lastOp.arg => o = lastOp.result

\* C2 witness: a call returned a live string that an earlier call had
\* interned, not the newest object of the heap.
C2_Witness ==
  /\ lastOp.op \in { "copyString", "takeString" }
  /\ lastOp.result \in LiveStrings
  /\ lastOp.result < nextId - 1

\* C6: every object on the allocation list that is unreachable when
\* collectGarbage starts, of whatever kind, is unlinked from the list and has
\* its memory released exactly once by that collection.
C6_UnreachableReleasedOnce ==
  AfterCollection =>
    \A o \in SeqRange(gcStart.objects) \ gcStart.reach :
      /\ o \notin SeqRange(objects)
      /\ o \in DOMAIN released
      /\ released[o] = 1

\* C7: when collectGarbage returns, no object remaining on the allocation
\* list has its marked flag set, whatever its kind.
C7_SurvivorsUnmarked ==
  AfterCollection => \A o \in SeqRange(objects) : ~heap[o].isMarked

\* C8: the intern table is a weak root: a string that only the table refers
\* to is not kept by it, each string that sweep frees has left vm.strings, and
\* after a collection no key of vm.strings refers to a freed string.
C8_WeakInternTable ==
  /\ strings \cap freed = {}
  /\ AfterCollection =>
       /\ strings \subseteq SeqRange(objects)
       /\ Unreached \cap strings = {}
       /\ \A s \in gcStart.strings \ (gcStart.reach \cup gcStart.marked) : s \in Unreached

\* C8 witness: a collection freed a string that was in the intern table.
C8_Witness ==
  /\ AfterCollection
  /\ Unreached \cap gcStart.strings # {}

\* C9: running collectGarbage twice in succession frees nothing on the second
\* run and leaves the allocation list unchanged.
C9_Idempotent ==
  (AfterCollection /\ gcStart.repeat) =>
    /\ gcStart.unreached = << >>
    /\ objects = gcStart.objects

\* C9 witness: a second collection in succession, after a first that freed
\* objects.
C9_Witness ==
  /\ AfterCollection
  /\ gcStart.repeat
  /\ gcStart.prior # << >>

(***************************************************************************)
(* The language level.  compile (compiler.c) is the single-pass compiler:  *)
(* its functions are operators on the parser state p, a record of the      *)
(* global Parser, of the scanner's position and of the chain of Compilers  *)
(* (innermost last); a function that returns a value leaves it in p.ret.   *)
(* run (vm.c) executes the code one instruction at a time.  At this level  *)
(* a value carries its object, and the heap stays out of the picture.      *)
(*                                                                         *)
(* The sources are written in the part of the language made of function    *)
(* and variable declarations, blocks, print, return and expression         *)
(* statements, and expressions over literals, names, assignment, calls,    *)
(* grouping, unary - and !, and binary + and -.                            *)
(***************************************************************************)
MaxDepth == 3    \* call frames available to a session

\* Value (value.h): the type tag and the payload
NUMBER_VAL(number) == [ type |-> "VAL_NUMBER", as |-> number ]
BOOL_VAL(boolean) == [ type |-> "VAL_BOOL", as |-> boolean ]
NilValue == [ type |-> "VAL_NIL", as |-> 0 ]
OBJ_VAL(object) == [ type |-> "VAL_OBJ", as |-> object ]
IS_NUMBER(value) == value.type = "VAL_NUMBER"
IS_BOOL(value) == value.type = "VAL_BOOL"
IS_NIL(value) == value.type = "VAL_NIL"
isObjType(value, type) == value.type = "VAL_OBJ" /\ value.as.type = type
IS_STRING(value) == isObjType(value, "OBJ_STRING")

\* the objects of object.c; a NULL name is the empty string
ObjString(chars) == [ type |-> "OBJ_STRING", chars |-> chars ]
ObjFunction == [ type |-> "OBJ_FUNCTION", arity |-> 0, upvalueCount |-> 0, name |-> "",
                 code |-> << >>, lines |-> << >>, constants |-> << >> ]
ObjNative(function, arity) ==
  [ type |-> "OBJ_NATIVE", function |-> function, arity |-> arity ]
NullObject == [ type |-> "NULL" ]

\* Token (scanner.h).  A source is the sequence of its lexemes and line
\* breaks; scanToken skips the line breaks, counting the lines, classifies
\* the next lexeme and returns TOKEN_EOF from the end of the source on.  The
\* lexeme of a TOKEN_ERROR is the scanner's message.
Token(type, lexeme, atLine) == [ type |-> type, lexeme |-> lexeme, line |-> atLine ]
NewLine == "\n"
Digits == << "0", "1", "2", "3", "4", "5", "6", "7", "8", "9" >>
UnexpectedCharacter == "Unexpected character."
tokenType(lexeme) ==
  CASE lexeme = "(" -> "TOKEN_LEFT_PAREN"
    [] lexeme = ")" -> "TOKEN_RIGHT_PAREN"
    [] lexeme = "{" -> "TOKEN_LEFT_BRACE"
    [] lexeme = "}" -> "TOKEN_RIGHT_BRACE"
    [] lexeme = "," -> "TOKEN_COMMA"
    [] lexeme = "-" -> "TOKEN_MINUS"
    [] lexeme = "+" -> "TOKEN_PLUS"
    [] lexeme = ";" -> "TOKEN_SEMICOLON"
    [] lexeme = "=" -> "TOKEN_EQUAL"
    [] lexeme = "!" -> "TOKEN_BANG"
    [] lexeme = "==" -> "TOKEN_EQUAL_EQUAL"
    [] lexeme = ":" -> "TOKEN_COLON"
    [] lexeme = "?" -> "TOKEN_QUESTION"
    [] lexeme = "and" -> "TOKEN_AND"
    [] lexeme = "or" -> "TOKEN_OR"
    [] lexeme = "class" -> "TOKEN_CLASS"
    [] lexeme = "switch" -> "TOKEN_SWITCH"
    [] lexeme = "case" -> "TOKEN_CASE"
    [] lexeme = "default" -> "TOKEN_DEFAULT"
    [] lexeme = "fallthrough" -> "TOKEN_FALLTHROUGH"
    [] lexeme = "fun" -> "TOKEN_FUN"
    [] lexeme = "var" -> "TOKEN_VAR"
    [] lexeme = "print" -> "TOKEN_PRINT"
    [] lexeme = "return" -> "TOKEN_RETURN"
    [] lexeme = "<" -> "TOKEN_LESS"
    [] lexeme = "if" -> "TOKEN_IF"
    [] lexeme = "else" -> "TOKEN_ELSE"
    [] lexeme = "elif" -> "TOKEN_ELIF"
    [] lexeme = "then" -> "TOKEN_THEN"
    [] lexeme = "while" -> "TOKEN_WHILE"
    [] lexeme = "for" -> "TOKEN_FOR"
    [] lexeme = "break" -> "TOKEN_BREAK"
    [] lexeme = "continue" -> "TOKEN_CONTINUE"
    [] lexeme = "nil" -> "TOKEN_NIL"
    [] lexeme = "true" -> "TOKEN_TRUE"
    [] lexeme = "false" -> "TOKEN_FALSE"
    [] lexeme = UnexpectedCharacter -> "TOKEN_ERROR"
    [] OTHER -> IF \E d \in DOMAIN Digits : SubSeq(lexeme, 1, 1) = Digits[d]
                THEN "TOKEN_NUMBER"
                ELSE IF SubSeq(lexeme, 1, 1) = "\"" THEN "TOKEN_STRING"
                ELSE "TOKEN_IDENTIFIER"

RECURSIVE scanToken(_)
scanToken(p) ==
  IF p.next > Len(p.source) THEN [ p EXCEPT !.ret = Token("TOKEN_EOF", "", p.line) ]
  ELSE IF p.source[p.next] = NewLine
  THEN scanToken([ p EXCEPT !.next = @ + 1, !.line = @ + 1 ])
  ELSE [ p EXCEPT !.ret = Token(tokenType(p.source[p.next]), p.source[p.next], p.line),
                  !.next = @ + 1 ]

\* Bind([ x \in { e } |-> body ]) is body with x bound to the value of e: a
\* local variable of the C function that is assigned once
Bind(f) == f[CHOOSE x \in DOMAIN f : TRUE]

\* strtod on the digits of a number literal
RECURSIVE strtodFrom(_, _, _)
strtodFrom(text, i, value) ==
  IF i > Len(text) THEN value
  ELSE strtodFrom(text, i + 1,
                  value * 10
                    + (CHOOSE d \in DOMAIN Digits : Digits[d] = SubSeq(text, i, i)) - 1)
strtod(text) == strtodFrom(text, 1, 0)

currentOf(p) == p.compilers[Len(p.compilers)]
currentChunk(p) == currentOf(p).function

\* errorAt: in panic mode nothing is reported; errors keeps what was reported
\* and the depth of the Compiler chain at that point
errorAt(p, token, message) ==
  IF p.panicMode THEN p
  ELSE [ p EXCEPT !.panicMode = TRUE,
                  !.errors = Append(@, [ message |-> message, token |-> token,
                                         depth |-> Len(p.compilers) ]),
                  !.hadError = TRUE ]
errorAtCurrent(p, message) == errorAt(p, p.current, message)
error(p, message) == errorAt(p, p.previous, message)

RECURSIVE scanCurrent(_)
scanCurrent(p) ==
  Bind([ scanned \in { scanToken(p) } |->
    IF scanned.ret.type # "TOKEN_ERROR" THEN [ scanned EXCEPT !.current = scanned.ret ]
    ELSE scanCurrent(errorAtCurrent([ scanned EXCEPT !.current = scanned.ret ],
                                    scanned.ret.lexeme)) ])
advance(p) == scanCurrent([ p EXCEPT !.previous = p.current ])

consume(p, type, message) ==
  IF p.current.type = type THEN advance(p) ELSE errorAtCurrent(p, message)
check(p, type) == p.current.type = type
match(p, type) ==
  IF ~check(p, type) THEN [ p EXCEPT !.ret = FALSE ]
  ELSE [ advance(p) EXCEPT !.ret = TRUE ]

\* C21 mutant: writeChunk that never starts a second run
writeChunkOneRun(chunk, byte, atLine) ==
  [ chunk EXCEPT
      !.code = Append(@, byte),
      !.lines = IF Len(@) = 0 THEN Append(@, [ line |-> atLine, run_length |-> 1 ])
                ELSE [ @ EXCEPT ![Len(@)].run_length = @ + 1 ] ]

\* writeChunk (chunk.c): the byte is appended, and the run of its line grows
\* by one or a new run starts.  The chunk is the function that holds it; the
\* capacities of the arrays are left out.
writeChunk(chunk, byte, atLine) ==
  [ chunk EXCEPT
      !.code = Append(@, byte),
      !.lines = IF Len(@) = 0 \/ @[Len(@)].line # atLine
                THEN Append(@, [ line |-> atLine, run_length |-> 1 ])
                ELSE [ @ EXCEPT ![Len(@)].run_length = @ + 1 ] ]

\* n calls of writeChunk with the same byte and line
writeChunks(chunk, byte, atLine, n) ==
  IF n = 0 THEN chunk
  ELSE [ chunk EXCEPT
           !.code = @ \o [ i \in 1..n |-> byte ],
           !.lines = IF Len(@) = 0 \/ @[Len(@)].line # atLine
                     THEN Append(@, [ line |-> atLine, run_length |-> n ])
                     ELSE [ @ EXCEPT ![Len(@)].run_length = @ + n ] ]

\* getLine (chunk.c): the line of the run that holds the offset, -1 past the end
RECURSIVE getLineFrom(_, _, _, _)
getLineFrom(chunk, instructionIndex, i, offset) ==
  IF i > Len(chunk.lines) THEN -1
  ELSE IF instructionIndex < offset + chunk.lines[i].run_length THEN chunk.lines[i].line
  ELSE getLineFrom(chunk, instructionIndex, i + 1, offset + chunk.lines[i].run_length)
getLine(chunk, instructionIndex) == getLineFrom(chunk, instructionIndex, 1, 0)

emitByte(p, byte) ==
  [ p EXCEPT !.compilers[Len(p.compilers)].function =
               writeChunk(@, byte, p.previous.line) ]
emitBytes(p, byte1, byte2) == emitByte(emitByte(p, byte1), byte2)
emitReturn(p) == emitByte(emitByte(p, "OP_NIL"), "OP_RETURN")

\* addConstant (chunk.c) on the current chunk: the index of the new constant
addConstantTo(p, value) ==
  [ p EXCEPT !.compilers[Len(p.compilers)].function.constants = Append(@, value),
             !.ret = Len(currentChunk(p).constants) ]
\* makeConstant: the index as uint8_t
makeConstant(p, value) == [ addConstantTo(p, value) EXCEPT !.ret = @ % 256 ]

\* C22 mutant: writeConstant that writes the long form with the low byte first
writeConstantLittleEndian(chunk, value, atLine) ==
  Bind([ index \in { Len(chunk.constants) } |->
  Bind([ added \in { [ chunk EXCEPT !.constants = Append(@, value) ] } |->
    IF index < 256
    THEN writeChunk(writeChunk(added, "OP_CONSTANT", atLine), index, atLine)
    ELSE writeChunk(writeChunk(writeChunk(writeChunk(added, "OP_CONSTANT_LONG", atLine),
                                          index % 256, atLine),
                               (index \div 256) % 256, atLine),
                    (index \div 65536) % 256, atLine) ]) ])

\* writeConstant (chunk.c): the constant is added, and its index is written
\* as one byte after OP_CONSTANT or as three after OP_CONSTANT_LONG
writeConstant(chunk, value, atLine) ==
  Bind([ index \in { Len(chunk.constants) } |->
  Bind([ added \in { [ chunk EXCEPT !.constants = Append(@, value) ] } |->
    IF index < 256
    THEN writeChunk(writeChunk(added, "OP_CONSTANT", atLine), index, atLine)
    ELSE writeChunk(writeChunk(writeChunk(writeChunk(added, "OP_CONSTANT_LONG", atLine),
                                          (index \div 65536) % 256, atLine),
                               (index \div 256) % 256, atLine),
                    index % 256, atLine) ]) ])
emitConstant(p, value) ==
  [ p EXCEPT !.compilers[Len(p.compilers)].function =
               writeConstant(@, value, p.previous.line) ]

UINT16_MAX == 65535

\* C23 mutant: patchJump that measures the distance from the operand itself
patchJumpFromOperand(p, offset) ==
  Bind([ jump \in { Len(currentChunk(p).code) - offset } |->
    [ (IF jump > UINT16_MAX THEN error(p, "Too much code to jump over.") ELSE p) EXCEPT
        !.compilers[Len(p.compilers)].function.code[offset + 1] = (jump \div 256) % 256,
        !.compilers[Len(p.compilers)].function.code[offset + 2] = jump % 256 ] ])

\* patchJump: the two bytes at offset become the distance from the byte after
\* them to the end of the chunk
patchJump(p, offset) ==
  Bind([ jump \in { Len(currentChunk(p).code) - offset - 2 } |->
    [ (IF jump > UINT16_MAX THEN error(p, "Too much code to jump over.") ELSE p) EXCEPT
        !.compilers[Len(p.compilers)].function.code[offset + 1] = (jump \div 256) % 256,
        !.compilers[Len(p.compilers)].function.code[offset + 2] = jump % 256 ] ])

\* addJump (jump_list.c): a JumpList is the sequence of its jumps
addJump(list, depth, offset) == Append(list, [ offset |-> offset, depth |-> depth ])

\* patchJumps: from the last jump down, the jumps of this depth get the
\* distance to target
RECURSIVE patchJumps(_, _, _, _, _)
patchJumps(p, list, i, depth, target) ==
  IF i < 1 \/ list[i].depth # depth THEN p
  ELSE Bind([ jumpOffset \in { target - list[i].offset - 2 } |->
         patchJumps(
           [ (IF jumpOffset > UINT16_MAX THEN error(p, "Too much code to jump over.")
              ELSE p) EXCEPT
               !.compilers[Len(p.compilers)].function.code[list[i].offset + 1] =
                  (jumpOffset \div 256) % 256,
               !.compilers[Len(p.compilers)].function.code[list[i].offset + 2] =
                  jumpOffset % 256 ],
           list, i - 1, depth, target) ])

\* emitJump: the instruction and two bytes to patch; the offset of the two
emitJump(p, instruction) ==
  Bind([ q \in { emitByte(emitByte(emitByte(p, instruction), 255), 255) } |->
    [ q EXCEPT !.ret = Len(currentChunk(q).code) - 2 ] ])

\* emitLoop: OP_LOOP and the distance back to loopStart from behind its operand
emitLoop(p, loopStart) ==
  Bind([ q \in { emitByte(p, "OP_LOOP") } |->
  Bind([ offset \in { Len(currentChunk(q).code) - loopStart + 2 } |->
    emitByte(emitByte(IF offset > UINT16_MAX THEN error(q, "Loop body too large.") ELSE q,
                      (offset \div 256) % 256),
             offset % 256) ]) ])

\* UINT8_COUNT (common.h)
UINT8_COUNT == 255 + 1

initCompiler(p, type) ==
  [ p EXCEPT !.compilers =
      Append(@, [ function |-> [ ObjFunction EXCEPT
                                   !.name = IF type # "TYPE_SCRIPT"
                                            THEN p.previous.lexeme ELSE "" ],
                  type |-> type,
                  locals |-> << [ name |-> "", depth |-> 0 ] >>,
                  scopeDepth |-> 0, currentLoopStart |-> -1, currentLoopEnd |-> -1,
                  currentLoopDepth |-> 0, breakJumps |-> << >> ]) ]

endCompiler(p) ==
  Bind([ q \in { emitReturn(p) } |->
    [ q EXCEPT !.ret = currentOf(q).function,
               !.compilers = SubSeq(@, 1, Len(@) - 1) ] ])

beginScope(p) == [ p EXCEPT !.compilers[Len(p.compilers)].scopeDepth = @ + 1 ]

\* the locals the loop of endScope pops: those from the last one down that
\* are deeper than the scope
innerLocals(compiler) ==
  { i \in 0..(Len(compiler.locals) - 1) :
      \A j \in i..(Len(compiler.locals) - 1) :
        compiler.locals[j + 1].depth > compiler.scopeDepth }
\* endScope: OP_POP for each of them
endScopePop(p) ==
  Bind([ n \in { Cardinality(innerLocals(currentOf(p))) } |->
    [ p EXCEPT !.compilers[Len(p.compilers)] =
        [ @ EXCEPT !.function = writeChunks(@, "OP_POP", p.previous.line, n),
                   !.locals = SubSeq(@, 1, Len(@) - n) ] ] ])
endScope(p) == endScopePop([ p EXCEPT !.compilers[Len(p.compilers)].scopeDepth = @ - 1 ])

RECURSIVE synchronizeSkip(_)
synchronizeSkip(p) ==
  IF p.current.type = "TOKEN_EOF" THEN p
  ELSE IF p.previous.type = "TOKEN_SEMICOLON" THEN p
  ELSE IF p.current.type \in { "TOKEN_CLASS", "TOKEN_FUN", "TOKEN_VAR", "TOKEN_FOR",
                               "TOKEN_IF", "TOKEN_WHILE", "TOKEN_PRINT", "TOKEN_RETURN" }
       THEN p
  ELSE synchronizeSkip(advance(p))
synchronize(p) == synchronizeSkip([ p EXCEPT !.panicMode = FALSE ])

\* identifierConstant: the name, copied, as a constant of the current chunk
identifierConstant(p, name) == makeConstant(p, OBJ_VAL(ObjString(name.lexeme)))
identifiersEqual(a, b) == Len(a) = Len(b) /\ a = b

\* resolveLocal: the loop from the last local down stops at the first local of
\* that name, which is the one with the highest slot
resolveLocal(p, compiler, name) ==
  Bind([ found \in { { i \in 0..(Len(compiler.locals) - 1) :
                         identifiersEqual(name.lexeme, compiler.locals[i + 1].name) } } |->
    IF found = { } THEN [ p EXCEPT !.ret = -1 ]
    ELSE Bind([ i \in { CHOOSE i \in found : \A j \in found : j <= i } |->
           [ (IF compiler.locals[i + 1].depth = -1
              THEN error(p, "Can't read local variable in its own initializer.")
              ELSE p) EXCEPT !.ret = i ] ]) ])

\* C24 mutant: addLocal without the check of localCount
addLocalUnchecked(p, name) ==
  [ p EXCEPT !.compilers[Len(p.compilers)].locals =
               Append(@, [ name |-> name.lexeme, depth |-> -1 ]) ]

addLocal(p, name) ==
  IF Len(currentOf(p).locals) = UINT8_COUNT
  THEN error(p, "Too many local variables in function.")
  ELSE [ p EXCEPT !.compilers[Len(p.compilers)].locals =
                     Append(@, [ name |-> name.lexeme, depth |-> -1 ]) ]

\* the slots the loop of declareVariable visits: from the last local down to,
\* and without, the first one of an enclosing scope
outerLocals(compiler) ==
  { i \in 0..(Len(compiler.locals) - 1) :
      /\ compiler.locals[i + 1].depth # -1
      /\ compiler.locals[i + 1].depth < compiler.scopeDepth }
scopeLocals(compiler) ==
  { i \in 0..(Len(compiler.locals) - 1) : \A o \in outerLocals(compiler) : o < i }
\* declareVariable: error reports once, whatever the number of locals of
\* that name the loop meets
declareVariable(p) ==
  IF currentOf(p).scopeDepth = 0 THEN p
  ELSE addLocal(IF \E i \in scopeLocals(currentOf(p)) :
                     identifiersEqual(p.previous.lexeme, currentOf(p).locals[i + 1].name)
                THEN error(p, "Already a variable with this name in this scope.")
                ELSE p,
                p.previous)

parseVariable(p, errorMessage) ==
  Bind([ q \in { declareVariable(consume(p, "TOKEN_IDENTIFIER", errorMessage)) } |->
    IF currentOf(q).scopeDepth > 0 THEN [ q EXCEPT !.ret = 0 ]
    ELSE identifierConstant(q, q.previous) ])

markInitialized(p) ==
  IF currentOf(p).scopeDepth = 0 THEN p
  ELSE [ p EXCEPT !.compilers[Len(p.compilers)].locals[Len(currentOf(p).locals)].depth =
                     currentOf(p).scopeDepth ]

defineVariable(p, global) ==
  IF currentOf(p).scopeDepth > 0 THEN markInitialized(p)
  ELSE emitBytes(p, "OP_DEFINE_GLOBAL", global)

\* Precedence (compiler.h), lowest first
Precedence == << "PREC_NONE", "PREC_ASSIGNMENT", "PREC_TERNARY", "PREC_OR", "PREC_AND",
                 "PREC_EQUALITY", "PREC_COMPARISON", "PREC_TERM", "PREC_FACTOR",
                 "PREC_UNARY", "PREC_CALL", "PREC_PRIMARY" >>
PREC(name) == (CHOOSE i \in DOMAIN Precedence : Precedence[i] = name) - 1

ParseRule(prefix, infix, precedence) ==
  [ prefix |-> prefix, infix |-> infix, precedence |-> PREC(precedence) ]
\* rules[]: the rows of the tokens the sources are made of; every other row
\* of these tokens is {NULL, NULL, PREC_NONE}
getRule(type) ==
  CASE type = "TOKEN_AND" -> ParseRule("NULL", "and_", "PREC_AND")
    [] type = "TOKEN_BANG" -> ParseRule("unary", "NULL", "PREC_NONE")
    [] type = "TOKEN_EQUAL_EQUAL" -> ParseRule("NULL", "binary", "PREC_EQUALITY")
    [] type = "TOKEN_FALSE" -> ParseRule("literal", "NULL", "PREC_NONE")
    [] type = "TOKEN_IDENTIFIER" -> ParseRule("variable", "NULL", "PREC_NONE")
    [] type = "TOKEN_LEFT_PAREN" -> ParseRule("grouping", "call", "PREC_CALL")
    [] type = "TOKEN_LESS" -> ParseRule("NULL", "binary", "PREC_COMPARISON")
    [] type = "TOKEN_MINUS" -> ParseRule("unary", "binary", "PREC_TERM")
    [] type = "TOKEN_NIL" -> ParseRule("literal", "NULL", "PREC_NONE")
    [] type = "TOKEN_NUMBER" -> ParseRule("number", "NULL", "PREC_NONE")
    [] type = "TOKEN_OR" -> ParseRule("NULL", "or_", "PREC_OR")
    [] type = "TOKEN_PLUS" -> ParseRule("NULL", "binary", "PREC_TERM")
    [] type = "TOKEN_QUESTION" -> ParseRule("NULL", "ternary", "PREC_TERNARY")
    [] type = "TOKEN_STRING" -> ParseRule("string", "NULL", "PREC_NONE")
    [] type = "TOKEN_TRUE" -> ParseRule("literal", "NULL", "PREC_NONE")
    [] OTHER -> ParseRule("NULL", "NULL", "PREC_NONE")

RECURSIVE declaration(_), statement(_), blockLoop(_), parsePrecedence(_, _),
          infixLoop(_, _, _), parameters(_), arguments(_, _), caseStatements(_),
          defaultStatements(_), switchCases(_, _), elifStatement(_)

expression(p) == parsePrecedence(p, PREC("PREC_ASSIGNMENT"))

blockLoop(p) ==
  IF ~check(p, "TOKEN_RIGHT_BRACE") /\ ~check(p, "TOKEN_EOF")
  THEN blockLoop(declaration(p)) ELSE p
block(p) == consume(blockLoop(p), "TOKEN_RIGHT_BRACE", "Expect '}' after block.")

\* the body of the do-while loop of function() over the parameters
parameters(p) ==
  Bind([ counted \in { [ p EXCEPT !.compilers[Len(p.compilers)].function.arity = @ + 1 ] } |->
  Bind([ constant \in { parseVariable(
                           IF currentOf(counted).function.arity > 255
                           THEN errorAtCurrent(counted, "Can't have more than 255 parameters.")
                           ELSE counted,
                           "Expect parameter name.") } |->
  Bind([ more \in { match(defineVariable(constant, constant.ret), "TOKEN_COMMA") } |->
    IF more.ret THEN parameters(more) ELSE more ]) ]) ])

\* function(type): the parameters and the body of a function, compiled by a
\* Compiler of its own, and OP_CLOSURE with the function as its constant
\* function(): up to the body, and from the end of the body on
functionHead(p, type) ==
  Bind([ opened \in { consume(beginScope(initCompiler(p, type)), "TOKEN_LEFT_PAREN",
                               "Expect '(' after function name.") } |->
    consume(consume(IF ~check(opened, "TOKEN_RIGHT_PAREN")
                    THEN parameters(opened) ELSE opened,
                    "TOKEN_RIGHT_PAREN", "Expect ')' after parameters."),
            "TOKEN_LEFT_BRACE", "Expect '{' before function body.") ])
functionEnd(p) ==
  Bind([ function \in { endCompiler(p) } |->
  Bind([ constant \in { makeConstant(function, OBJ_VAL(function.ret)) } |->
    emitBytes(constant, "OP_CLOSURE", constant.ret) ]) ])
compileFunction(p, type) == functionEnd(block(functionHead(p, type)))

funDeclaration(p) ==
  Bind([ global \in { parseVariable(p, "Expect function name.") } |->
    defineVariable(compileFunction(markInitialized(global), "TYPE_FUNCTION"),
                   global.ret) ])

\* the body of the do-while loop over the arguments; argCount is a uint8_t
arguments(p, argCount) ==
  Bind([ more \in { match(expression(p), "TOKEN_COMMA") } |->
    IF more.ret THEN arguments(more, (argCount + 1) % 256)
    ELSE [ more EXCEPT !.ret = (argCount + 1) % 256 ] ])
argumentList(p) ==
  Bind([ argCount \in { IF ~check(p, "TOKEN_RIGHT_PAREN") THEN arguments(p, 0)
                        ELSE [ p EXCEPT !.ret = 0 ] } |->
    [ consume(argCount, "TOKEN_RIGHT_PAREN", "Expect ')' after arguments.") EXCEPT
        !.ret = argCount.ret ] ])

varDeclaration(p) ==
  Bind([ global \in { parseVariable(p, "Expect variable name.") } |->
  Bind([ assigned \in { match(global, "TOKEN_EQUAL") } |->
    defineVariable(consume(IF assigned.ret THEN expression(assigned)
                           ELSE emitByte(assigned, "OP_NIL"),
                           "TOKEN_SEMICOLON", "Expect ';' after variable declaration."),
                   global.ret) ]) ])

expressionStatement(p) ==
  emitByte(consume(expression(p), "TOKEN_SEMICOLON", "Expect ';' after expression."),
           "OP_POP")

printStatement(p) ==
  emitByte(consume(expression(p), "TOKEN_SEMICOLON", "Expect ';' after value."),
           "OP_PRINT")

returnStatement(p) ==
  Bind([ bare \in { match(IF currentOf(p).type = "TYPE_SCRIPT"
                         THEN error(p, "Can't return from top-level code.") ELSE p,
                         "TOKEN_SEMICOLON") } |->
    IF bare.ret THEN emitReturn(bare)
    ELSE emitByte(consume(expression(bare), "TOKEN_SEMICOLON",
                          "Expect ';' after return value."), "OP_RETURN") ])

\* the condition of if, elif and while, in parentheses or before 'then'
condition(p) ==
  IF ~match(p, "TOKEN_LEFT_PAREN").ret
  THEN consume(expression(p), "TOKEN_THEN",
               "Expect 'then' after expression without parantheses.")
  ELSE consume(expression(match(p, "TOKEN_LEFT_PAREN")), "TOKEN_RIGHT_PAREN",
               "Expect ')' after condition.")

\* the else part of if and elif, and the patch of the jump over it
elsePart(p, elseJump) ==
  patchJump(IF match(p, "TOKEN_ELIF").ret THEN elifStatement(match(p, "TOKEN_ELIF"))
            ELSE IF match(p, "TOKEN_ELSE").ret THEN statement(match(p, "TOKEN_ELSE"))
            ELSE p,
            elseJump)

elifStatement(p) ==
  Bind([ thenJump \in { emitJump(condition(p), "OP_JUMP_IF_FALSE") } |->
  Bind([ then \in { statement(emitByte(thenJump, "OP_POP")) } |->
  Bind([ elseJump \in { emitJump(then, "OP_JUMP") } |->
    elsePart(emitByte(patchJump(elseJump, thenJump.ret), "OP_POP"), elseJump.ret) ]) ]) ])

ifStatement(p) ==
  Bind([ thenJump \in { emitJump(condition(p), "OP_JUMP_IF_FALSE") } |->
  Bind([ then \in { statement(emitByte(thenJump, "OP_POP")) } |->
  Bind([ elseJump \in { emitJump(then, "OP_JUMP") } |->
    elsePart(emitByte(patchJump(elseJump, thenJump.ret), "OP_POP"), elseJump.ret) ]) ]) ])

\* a loop is entered: the depth grows and loopStart is the current loop's start
enterLoop(p, loopStart) ==
  [ p EXCEPT !.compilers[Len(p.compilers)].currentLoopStart = loopStart ]

\* marks records, for the start and the end of a loop and of a switch, the
\* function, the offset, the number of locals the Compiler has in scope there
\* and the loopStart, loopEnd and loopDepth that are current; loopOpen is the
\* entry of whileStatement and forStatement and loopClosed their return
mark(p, at, offset) ==
  [ p EXCEPT !.marks = Append(@, [ at |-> at,
                                   function |-> currentOf(p).function.name,
                                   offset |-> offset,
                                   locals |-> Len(currentOf(p).locals),
                                   loop |-> currentOf(p).currentLoopStart,
                                   end |-> currentOf(p).currentLoopEnd,
                                   depth |-> currentOf(p).currentLoopDepth ]) ]
here(p, at) == mark(p, at, Len(currentChunk(p).code))

\* the end of whileStatement and forStatement: the break jumps of this depth
\* are patched to the end of the loop, and the surrounding loop is current again
patchLoop(p) ==
  Bind([ loopEnd \in { Len(currentChunk(p).code) } |->
    patchJumps(mark(p, "loopEnd", loopEnd), currentOf(p).breakJumps,
               Len(currentOf(p).breakJumps), currentOf(p).currentLoopDepth, loopEnd) ])

closeLoopKeepsStart(p, surrounding) ==
  here([ patchLoop(p) EXCEPT
           !.compilers[Len(p.compilers)].currentLoopDepth = @ - 1,
           !.compilers[Len(p.compilers)].currentLoopEnd = surrounding.currentLoopEnd ],
       "loopClosed")

closeLoop(p, surrounding) ==
  here([ patchLoop(p) EXCEPT
           !.compilers[Len(p.compilers)].currentLoopDepth = @ - 1,
           !.compilers[Len(p.compilers)].currentLoopStart = surrounding.currentLoopStart,
           !.compilers[Len(p.compilers)].currentLoopEnd = surrounding.currentLoopEnd ],
       "loopClosed")

whileStatement(p) ==
  Bind([ loopStart \in { Len(currentChunk(p).code) } |->
  Bind([ exitJump \in
           { emitJump(condition(enterLoop(
                        mark([ here(p, "loopOpen") EXCEPT
                                 !.compilers[Len(p.compilers)].currentLoopDepth = @ + 1 ],
                             "loopStart", loopStart),
                        loopStart)),
                      "OP_JUMP_IF_FALSE") } |->
  Bind([ body \in { statement(emitByte(exitJump, "OP_POP")) } |->
    closeLoop(emitByte(patchJump(emitLoop(body, loopStart), exitJump.ret), "OP_POP"),
              currentOf(p)) ]) ]) ])

\* the initializer of a for loop
forInitializer(p) ==
  IF match(p, "TOKEN_SEMICOLON").ret THEN match(p, "TOKEN_SEMICOLON")
  ELSE IF match(p, "TOKEN_VAR").ret THEN varDeclaration(match(p, "TOKEN_VAR"))
  ELSE expressionStatement(p)

\* the condition of a for loop: p.ret is exitJump
forCondition(p) ==
  IF match(p, "TOKEN_SEMICOLON").ret THEN [ match(p, "TOKEN_SEMICOLON") EXCEPT !.ret = -1 ]
  ELSE Bind([ exitJump \in { emitJump(consume(expression(p), "TOKEN_SEMICOLON",
                                               "Expect ';' after loop condition."),
                                       "OP_JUMP_IF_FALSE") } |->
         [ emitByte(exitJump, "OP_POP") EXCEPT !.ret = exitJump.ret ] ])

\* the increment of a for loop: p.ret is the loopStart the body loops back to
forIncrement(p, loopStart) ==
  IF match(p, "TOKEN_RIGHT_PAREN").ret
  THEN [ match(p, "TOKEN_RIGHT_PAREN") EXCEPT !.ret = loopStart ]
  ELSE Bind([ bodyJump \in { emitJump(p, "OP_JUMP") } |->
       Bind([ incrementStart \in { Len(currentChunk(bodyJump).code) } |->
         [ patchJump(enterLoop(
                       mark(emitLoop(consume(emitByte(expression(bodyJump), "OP_POP"),
                                             "TOKEN_RIGHT_PAREN",
                                             "Expect ')' after for clauses."),
                                     loopStart),
                            "loopStart", incrementStart),
                       incrementStart),
                     bodyJump.ret) EXCEPT !.ret = incrementStart ] ]) ])

forStatement(p) ==
  Bind([ initialized \in
           { forInitializer(consume(beginScope(
               [ here(p, "loopOpen") EXCEPT !.compilers[Len(p.compilers)].currentLoopDepth = @ + 1 ]),
               "TOKEN_LEFT_PAREN", "Expect '(' after 'for'.")) } |->
  Bind([ loopStart \in { Len(currentChunk(initialized).code) } |->
  Bind([ exitJump \in { forCondition(enterLoop(mark(initialized, "loopStart", loopStart),
                                               loopStart)) } |->
  Bind([ increment \in { forIncrement(exitJump, loopStart) } |->
  Bind([ body \in { statement(increment) } |->
  Bind([ looped \in { emitLoop(body, increment.ret) } |->
    endScope(closeLoop(IF exitJump.ret # -1
                       THEN emitByte(patchJump(looped, exitJump.ret), "OP_POP")
                       ELSE looped,
                       currentOf(p))) ]) ]) ]) ]) ]) ])

\* breaks records, for a break, the function, the offset of its jump and the
\* loopStart of the loop it is in
breakStatement(p) ==
  IF currentOf(p).currentLoopStart = -1
  THEN error(p, "Cannot use 'break' outside of a loop.")
  ELSE Bind([ jump \in { emitJump(consume(p, "TOKEN_SEMICOLON",
                                           "Expect ';' after 'break'."),
                                   "OP_JUMP") } |->
         [ emitByte(jump, "OP_POP") EXCEPT
             !.compilers[Len(p.compilers)].breakJumps =
                addJump(@, currentOf(p).currentLoopDepth, jump.ret),
             !.breaks = Append(@, [ function |-> currentOf(p).function.name,
                                    offset |-> jump.ret,
                                    loop |-> currentOf(p).currentLoopStart ]) ] ])

continueStatement(p) ==
  IF currentOf(p).currentLoopStart = -1
  THEN error(p, "Cannot use 'continue' outside of a loop.")
  ELSE emitLoop(consume(p, "TOKEN_SEMICOLON", "Expect ';' after 'break'."),
                currentOf(p).currentLoopStart)

\* the statements of a case, up to the next case, default, '}' or fallthrough.
\* A statement that consumes no token leaves the loop where it was: the loop
\* does not end, which p.looping records.
caseStatements(p) ==
  IF /\ ~check(p, "TOKEN_CASE") /\ ~check(p, "TOKEN_DEFAULT")
     /\ ~check(p, "TOKEN_RIGHT_BRACE") /\ ~check(p, "TOKEN_FALLTHROUGH")
  THEN Bind([ q \in { statement(p) } |->
         IF q.next = p.next /\ q.current = p.current THEN [ q EXCEPT !.looping = TRUE ]
         ELSE caseStatements(q) ])
  ELSE p

\* the jump a fallthrough left open lands at the start of the next body
patchFallthrough(p) ==
  IF p.fallthroughMode THEN [ patchJump(p, p.fallJump) EXCEPT !.fallthroughMode = FALSE ]
  ELSE p

\* C18 mutant: switchCase that ends a case with fallthrough as any other
switchCaseBreaks(p) ==
  Bind([ compared \in { emitByte(consume(expression(emitByte(
                            consume(p, "TOKEN_CASE", "Expected 'case' here."), "OP_DUP")),
                            "TOKEN_COLON", "Expect ':' after case expression."),
                          "OP_EQUAL") } |->
  Bind([ caseFalseJump \in { emitJump(compared, "OP_JUMP_IF_FALSE") } |->
  Bind([ body \in { match(caseStatements(emitByte(caseFalseJump, "OP_POP")),
                          "TOKEN_FALLTHROUGH") } |->
  Bind([ caseEndJump \in { emitJump(body, "OP_JUMP") } |->
    [ emitByte(patchJump(caseEndJump, caseFalseJump.ret), "OP_POP") EXCEPT
        !.ret = caseEndJump.ret ] ]) ]) ]) ])

\* switchCase: the offset of the jump to the end of the switch, or -1 for
\* a case that ends with fallthrough
switchCase(p) ==
  Bind([ compared \in { emitByte(consume(expression(emitByte(
                            consume(p, "TOKEN_CASE", "Expected 'case' here."), "OP_DUP")),
                            "TOKEN_COLON", "Expect ':' after case expression."),
                          "OP_EQUAL") } |->
  Bind([ caseFalseJump \in { emitJump(compared, "OP_JUMP_IF_FALSE") } |->
  Bind([ body \in { caseStatements(patchFallthrough(emitByte(caseFalseJump, "OP_POP"))) } |->
    IF ~check(body, "TOKEN_FALLTHROUGH")
    THEN Bind([ caseEndJump \in { emitJump(body, "OP_JUMP") } |->
           [ emitByte(patchJump(caseEndJump, caseFalseJump.ret), "OP_POP") EXCEPT
               !.fallthroughMode = FALSE, !.ret = caseEndJump.ret ] ])
    ELSE Bind([ fall \in { emitJump([ consume(body, "TOKEN_FALLTHROUGH",
                                               "Expected 'fallthrough' here.") EXCEPT
                                        !.fallthroughMode = TRUE ], "OP_JUMP") } |->
           [ emitByte(patchJump([ fall EXCEPT !.fallJump = fall.ret ],
                                caseFalseJump.ret), "OP_POP") EXCEPT !.ret = -1 ] ]) ]) ]) ])

defaultStatements(p) ==
  IF ~check(p, "TOKEN_RIGHT_BRACE")
  THEN Bind([ q \in { statement(p) } |->
         IF q.next = p.next /\ q.current = p.current THEN [ q EXCEPT !.looping = TRUE ]
         ELSE defaultStatements(q) ])
  ELSE p
defaultCase(p) ==
  defaultStatements(patchFallthrough(
    consume(p, "TOKEN_COLON", "Expect ':' after 'default'.")))

\* the loop of switchStatement over the cases: p.ret is the JumpList
switchCases(p, caseJumps) ==
  IF check(p, "TOKEN_CASE")
  THEN Bind([ case \in { switchCase(p) } |->
         switchCases(case, IF case.ret # -1
                           THEN addJump(caseJumps, currentOf(case).currentLoopDepth, case.ret)
                           ELSE caseJumps) ])
  ELSE [ p EXCEPT !.ret = caseJumps ]

\* C29 mutant: switchStatement that leaves the selector on the stack
switchStatementKeepsSelector(p) ==
  Bind([ cases \in { switchCases(
                        consume(consume(expression(
                          consume(here(p, "switchStart"), "TOKEN_LEFT_PAREN",
                                  "Expect '(' after 'switch'.")),
                          "TOKEN_RIGHT_PAREN", "Expect ')' after switch value."),
                          "TOKEN_LEFT_BRACE", "Expect '{' before switch cases."),
                        << >>) } |->
  Bind([ default \in { match(cases, "TOKEN_DEFAULT") } |->
  Bind([ body \in { IF default.ret THEN defaultCase(default) ELSE default } |->
    consume(here(patchJumps(body, cases.ret, Len(cases.ret),
                            currentOf(body).currentLoopDepth,
                            Len(currentChunk(body).code)), "switchEnd"),
            "TOKEN_RIGHT_BRACE", "Expect '}' after switch cases.") ]) ]) ])

switchStatement(p) ==
  Bind([ cases \in { switchCases(
                        consume(consume(expression(
                          consume(here(p, "switchStart"), "TOKEN_LEFT_PAREN",
                                  "Expect '(' after 'switch'.")),
                          "TOKEN_RIGHT_PAREN", "Expect ')' after switch value."),
                          "TOKEN_LEFT_BRACE", "Expect '{' before switch cases."),
                        << >>) } |->
  Bind([ default \in { match(cases, "TOKEN_DEFAULT") } |->
  Bind([ body \in { IF default.ret THEN defaultCase(default) ELSE default } |->
    consume(here(emitByte(patchJumps(body, cases.ret, Len(cases.ret),
                                     currentOf(body).currentLoopDepth,
                                     Len(currentChunk(body).code)),
                          "OP_POP"), "switchEnd"),
            "TOKEN_RIGHT_BRACE", "Expect '}' after switch cases.") ]) ]) ])

declaration(p) ==
  Bind([ declared \in
           { IF match(p, "TOKEN_FUN").ret THEN funDeclaration(match(p, "TOKEN_FUN"))
             ELSE IF match(p, "TOKEN_VAR").ret THEN varDeclaration(match(p, "TOKEN_VAR"))
             ELSE statement(p) } |->
    IF declared.panicMode THEN synchronize(declared) ELSE declared ])

\* statement, for the statements the sources are made of
statement(p) ==
  IF match(p, "TOKEN_PRINT").ret THEN printStatement(match(p, "TOKEN_PRINT"))
  ELSE IF match(p, "TOKEN_IF").ret THEN ifStatement(match(p, "TOKEN_IF"))
  ELSE IF match(p, "TOKEN_FOR").ret THEN forStatement(match(p, "TOKEN_FOR"))
  ELSE IF match(p, "TOKEN_WHILE").ret THEN whileStatement(match(p, "TOKEN_WHILE"))
  ELSE IF match(p, "TOKEN_SWITCH").ret THEN switchStatement(match(p, "TOKEN_SWITCH"))
  ELSE IF match(p, "TOKEN_RETURN").ret THEN returnStatement(match(p, "TOKEN_RETURN"))
  ELSE IF match(p, "TOKEN_BREAK").ret THEN breakStatement(match(p, "TOKEN_BREAK"))
  ELSE IF match(p, "TOKEN_CONTINUE").ret
  THEN continueStatement(match(p, "TOKEN_CONTINUE"))
  ELSE IF match(p, "TOKEN_LEFT_BRACE").ret
  THEN endScope(block(beginScope(match(p, "TOKEN_LEFT_BRACE"))))
  ELSE expressionStatement(p)

binary(p, canAssign) ==
  Bind([ operatorType \in { p.previous.type } |->
  Bind([ rule \in { getRule(operatorType) } |->
    CASE operatorType = "TOKEN_PLUS" ->
           emitByte(parsePrecedence(p, rule.precedence + 1), "OP_ADD")
      [] operatorType = "TOKEN_MINUS" ->
           emitByte(parsePrecedence(p, rule.precedence + 1), "OP_SUBTRACT")
      [] operatorType = "TOKEN_EQUAL_EQUAL" ->
           emitByte(parsePrecedence(p, rule.precedence + 1), "OP_EQUAL")
      [] operatorType = "TOKEN_LESS" ->
           emitByte(parsePrecedence(p, rule.precedence + 1), "OP_LESS")
      [] OTHER -> parsePrecedence(p, rule.precedence + 1) ]) ])

\* C36 mutant: and_ without the OP_POP of the left operand
andKeepsLeft(p, canAssign) ==
  Bind([ endJump \in { emitJump(p, "OP_JUMP_IF_FALSE") } |->
    patchJump(parsePrecedence(endJump, PREC("PREC_AND")), endJump.ret) ])

and_(p, canAssign) ==
  Bind([ endJump \in { emitJump(p, "OP_JUMP_IF_FALSE") } |->
    patchJump(parsePrecedence(emitByte(endJump, "OP_POP"), PREC("PREC_AND")),
              endJump.ret) ])

or_(p, canAssign) ==
  Bind([ endJump \in { emitJump(p, "OP_JUMP_IF_TRUE") } |->
    patchJump(parsePrecedence(emitByte(endJump, "OP_POP"), PREC("PREC_OR")),
              endJump.ret) ])

ternary(p, canAssign) ==
  Bind([ thenJump \in { emitJump(p, "OP_JUMP_IF_FALSE") } |->
  Bind([ elseJump \in
           { emitJump(consume(parsePrecedence(emitByte(thenJump, "OP_POP"),
                                              PREC("PREC_TERNARY")),
                              "TOKEN_COLON",
                              "Expect ':' after true branch of ternary operator."),
                      "OP_JUMP") } |->
    patchJump(parsePrecedence(emitByte(patchJump(elseJump, thenJump.ret), "OP_POP"),
                              PREC("PREC_ASSIGNMENT")),
              elseJump.ret) ]) ])

\* call, the infix rule of '('
callRule(p, canAssign) ==
  Bind([ argCount \in { argumentList(p) } |->
    emitBytes(argCount, "OP_CALL", argCount.ret) ])

literal(p, canAssign) ==
  CASE p.previous.type = "TOKEN_FALSE" -> emitByte(p, "OP_FALSE")
    [] p.previous.type = "TOKEN_NIL" -> emitByte(p, "OP_NIL")
    [] p.previous.type = "TOKEN_TRUE" -> emitByte(p, "OP_TRUE")
    [] OTHER -> p

grouping(p, canAssign) ==
  consume(expression(p), "TOKEN_RIGHT_PAREN", "Expect ')' after expression.")

number(p, canAssign) == emitConstant(p, NUMBER_VAL(strtod(p.previous.lexeme)))

\* string: the characters between the quotes, copied
string(p, canAssign) ==
  emitConstant(p, OBJ_VAL(ObjString(SubSeq(p.previous.lexeme, 2,
                                           Len(p.previous.lexeme) - 1))))

\* namedVariable: a local of the current Compiler, otherwise a global
namedVariable(p, name, canAssign) ==
  Bind([ resolved \in { resolveLocal(p, currentOf(p), name) } |->
  Bind([ getOp \in { IF resolved.ret # -1 THEN "OP_GET_LOCAL" ELSE "OP_GET_GLOBAL" } |->
  Bind([ setOp \in { IF resolved.ret # -1 THEN "OP_SET_LOCAL" ELSE "OP_SET_GLOBAL" } |->
  Bind([ arg \in { IF resolved.ret # -1 THEN resolved
                   ELSE identifierConstant(resolved, name) } |->
  Bind([ assigned \in { IF canAssign THEN match(arg, "TOKEN_EQUAL")
                        ELSE [ arg EXCEPT !.ret = FALSE ] } |->
    IF assigned.ret THEN emitBytes(expression(assigned), setOp, arg.ret % 256)
    ELSE emitBytes(assigned, getOp, arg.ret % 256) ]) ]) ]) ]) ])

variable(p, canAssign) == namedVariable(p, p.previous, canAssign)

unary(p, canAssign) ==
  Bind([ operatorType \in { p.previous.type } |->
    CASE operatorType = "TOKEN_BANG" ->
           emitByte(parsePrecedence(p, PREC("PREC_UNARY")), "OP_NOT")
      [] operatorType = "TOKEN_MINUS" ->
           emitByte(parsePrecedence(p, PREC("PREC_UNARY")), "OP_NEGATE")
      [] OTHER -> parsePrecedence(p, PREC("PREC_UNARY")) ])

\* the call of a ParseFn through its pointer
prefixRule(p, rule, canAssign) ==
  CASE rule = "grouping" -> grouping(p, canAssign)
    [] rule = "unary" -> unary(p, canAssign)
    [] rule = "variable" -> variable(p, canAssign)
    [] rule = "number" -> number(p, canAssign)
    [] rule = "string" -> string(p, canAssign)
    [] rule = "literal" -> literal(p, canAssign)
infixRule(p, rule, canAssign) ==
  CASE rule = "call" -> callRule(p, canAssign)
    [] rule = "binary" -> binary(p, canAssign)
    [] rule = "and_" -> and_(p, canAssign)
    [] rule = "or_" -> or_(p, canAssign)
    [] rule = "ternary" -> ternary(p, canAssign)

\* the while loop of parsePrecedence over the infix operators
infixLoop(p, precedence, canAssign) ==
  IF precedence <= getRule(p.current.type).precedence
  THEN Bind([ q \in { advance(p) } |->
         infixLoop(infixRule(q, getRule(q.previous.type).infix, canAssign),
                   precedence, canAssign) ])
  ELSE p

parsePrecedence(p, precedence) ==
  Bind([ advanced \in { advance(p) } |->
  Bind([ rule \in { getRule(advanced.previous.type).prefix } |->
  Bind([ canAssign \in { precedence <= PREC("PREC_ASSIGNMENT") } |->
    IF rule = "NULL" THEN error(advanced, "Expect expression.")
    ELSE Bind([ parsed \in { infixLoop(prefixRule(advanced, rule, canAssign),
                                        precedence, canAssign) } |->
         Bind([ assigned \in { IF canAssign THEN match(parsed, "TOKEN_EQUAL")
                               ELSE [ parsed EXCEPT !.ret = FALSE ] } |->
           IF assigned.ret THEN error(assigned, "Invalid assignment target.")
           ELSE assigned ]) ]) ]) ]) ])

\* the loop of compile over the declarations of the script; recovered tells
\* that a declaration was compiled without a report after an earlier report
RECURSIVE declarations(_)
declarations(p) ==
  Bind([ end \in { match(p, "TOKEN_EOF") } |->
    IF end.ret THEN end
    ELSE Bind([ declared \in { declaration(end) } |->
           declarations([ declared EXCEPT
             !.recovered = @ \/ (end.hadError /\ declared.errors = end.errors) ]) ]) ])

\* the compiler's globals when the program starts (compiler.c 318-320,
\* 889-890): a zeroed parser, no Compiler, fallthroughMode false, fallJump -1
initParser ==
  [ source |-> << >>, next |-> 1, line |-> 1,
    current |-> Token("TOKEN_LEFT_PAREN", "", 0),
    previous |-> Token("TOKEN_LEFT_PAREN", "", 0),
    hadError |-> FALSE, panicMode |-> FALSE, errors |-> << >>,
    compilers |-> << >>, ret |-> 0, recovered |-> FALSE, looping |-> FALSE,
    marks |-> << >>, breaks |-> << >>,
    fallthroughMode |-> FALSE, fallJump |-> -1,
    global |-> 0, argCount |-> 0 ]

\* compile up to its loop: initScanner, initCompiler, the reset of hadError and
\* panicMode, and advance.  left is what the last compile left in the globals:
\* parser.current, fallthroughMode and fallJump are not reset.
beginCompile(source, left) ==
  advance([ initCompiler([ left EXCEPT !.source = source, !.next = 1, !.line = 1,
                                       !.errors = << >>, !.recovered = FALSE,
                                       !.marks = << >>, !.breaks = << >> ],
                         "TYPE_SCRIPT")
            EXCEPT !.hadError = FALSE, !.panicMode = FALSE ])

\* compile up to its return statement: the declarations and endCompiler
parse(source, left) == endCompiler(declarations(beginCompile(source, left)))

\* C5 mutant: compile that looks at panicMode instead of hadError
compileReturnsUnlessPanic(source, left) ==
  Bind([ p \in { parse(source, left) } |-> IF p.panicMode THEN NullObject ELSE p.ret ])

\* what compile returns when it does not return
Diverges == [ type |-> "DIVERGES" ]

\* compile: NULL when an error was reported, otherwise the script's function
compile(source, left) ==
  Bind([ p \in { parse(source, left) } |->
    IF p.looping THEN Diverges ELSE IF p.hadError THEN NullObject ELSE p.ret ])

(***************************************************************************)
(* Sessions.  The host calls interpret on one source after the other       *)
(* against the same VM; a source is given by its lexemes.                  *)
(***************************************************************************)
\* fun makeCounter(){ var n = 0; fun c(){ n = n + 1; return n; } return c; }
\* var c = makeCounter(); print c(); print c(); print c();
MakeCounter ==
  << "fun", "makeCounter", "(", ")", "{", "var", "n", "=", "0", ";",
     "fun", "c", "(", ")", "{", "n", "=", "n", "+", "1", ";", "return", "n", ";", "}",
     "return", "c", ";", "}",
     "var", "c", "=", "makeCounter", "(", ")", ";",
     "print", "c", "(", ")", ";", "print", "c", "(", ")", ";", "print", "c", "(", ")", ";" >>
\* var n = 10;
GlobalN == << "var", "n", "=", "10", ";" >>

\* var a = 1; fun f(b) { return b + a; }
Prelude ==
  << "var", "a", "=", "1", ";",
     "fun", "f", "(", "b", ")", "{", "return", "b", "+", "a", ";", "}" >>

\* sources that compile and run to the end whatever the globals are
PrintSum == << "print", "1", "+", "2", ";" >>
CallFunction ==
  << "fun", "g", "(", "x", ")", "{", "var", "y", "=", "x", "-", "1", ";",
     "return", "-", "y", ";", "}", "print", "g", "(", "3", ")", ";" >>
BlockLocals ==
  << "{", "var", "a", "=", "\"a\"", ";", "a", "=", "a", "+", "\"b\"", ";",
     "print", "a", ";", "}" >>
ValidSources == { PrintSum, CallFunction, BlockLocals }

\* fun r() { r(); } r();
Recursion == << "fun", "r", "(", ")", "{", "r", "(", ")", ";", "}", "r", "(", ")", ";" >>
\* x = 1;  and  print x;  where no x is defined
SetUndefined == << "x", "=", "1", ";" >>
GetUndefined == << "print", "x", ";" >>
\* a = 2; print a;  where a is defined
SetDefined == << "a", "=", "2", ";", "print", "a", ";" >>
\* fun a(){ b(); } fun b(){ return 1 + nil; } a();
StackTrace ==
  << "fun", "a", "(", ")", "{", "b", "(", ")", ";", "}",
     "fun", "b", "(", ")", "{", "return", "1", "+", "nil", ";", "}",
     "a", "(", ")", ";" >>

\* sources that compile and stop with a runtime error
RuntimeErrors ==
  { << "print", "-", "nil", ";" >>,
    << "nil", "(", ")", ";" >>,
    << "clock", "(", "1", ")", ";" >>,
    << "print", "clock", "(", ")", "-", "x", ";" >>,
    SetUndefined,
    << "print", "1", "+", "!", "true", ";" >>,
    << "print", "2", "-", "\"a\"", ";" >>,
    << "f", "(", ")", ";" >>,
    << "{", "var", "c", "=", "2", ";", "print", "c", "+", "f", "(", "nil", ")", ";", "}" >>,
    Recursion,
    << "fun", "g", "(", ")", "{", "var", "y", "=", "f", "(", "false", ")", ";", "}",
       "print", "g", "(", ")", ";" >> }

\* sources with a syntax error
SyntaxErrors ==
  { << "fun", "g", "(", ")", "{", "var", "y", "=", ";", "return", "1", ";", "}",
       "print", "2", ";" >>,
    << "print", "1", ";", "print", "+", ";", "a", "=", "2", ";", "print", "a", ";" >>,
    << "a", "=", UnexpectedCharacter, "3", ";" >>,
    << "return", "1", ";" >>,
    << "{", "var", "y", "=", "y", ";", "}" >>,
    << "{", "var", "y", ";", "var", "y", ";", "}", "a", "=", "3", ";" >>,
    << "a", "+", "1", "=", "2", ";" >>,
    << "fun", "g", "(", "x", ",", ")", "{", "}", "a", "=", "4", ";" >> }

\* a source with one lexeme left out
Without(source, i) == SubSeq(source, 1, i - 1) \o SubSeq(source, i + 1, Len(source))
Damaged(source) == { Without(source, i) : i \in 1..Len(source) }

Sources ==
  ValidSources \cup RuntimeErrors \cup SyntaxErrors
    \cup Damaged(CallFunction) \cup Damaged(BlockLocals)

\* class A {} A();
ClassCall == << "class", "A", "{", "}", "A", "(", ")", ";" >>
\* var x = 1;
\* switch(x){ case 1: print "one"; fallthrough case 2: print "two"; default: print "end"; }
SwitchFallthrough ==
  << "var", "x", "=", "1", ";", "switch", "(", "x", ")", "{",
     "case", "1", ":", "print", "\"one\"", ";", "fallthrough",
     "case", "2", ":", "print", "\"two\"", ";",
     "default", ":", "print", "\"end\"", ";", "}" >>

\* the same with fallthrough at the end of case 2 as well
SwitchFallthroughAll ==
  << "var", "x", "=", "1", ";", "switch", "(", "x", ")", "{",
     "case", "1", ":", "print", "\"one\"", ";", "fallthrough",
     "case", "2", ":", "print", "\"two\"", ";", "fallthrough",
     "default", ":", "print", "\"end\"", ";", "}" >>
\* a selector no case equals: var x = 3; switch(x){ case 1: print "one"; default: print "end"; }
SwitchDefault ==
  << "var", "x", "=", "3", ";", "switch", "(", "x", ")", "{",
     "case", "1", ":", "print", "\"one\"", ";",
     "default", ":", "print", "\"end\"", ";", "}" >>

LangSessions ==
  { << Prelude, source, next >> : source \in Sources, next \in ValidSources }
    \cup { << MakeCounter >>, << GlobalN, MakeCounter >>, << StackTrace >>, << ClassCall >>, << SwitchFallthrough >>, << SwitchFallthroughAll >>,
           << SwitchDefault >>,
           << Prelude, SetUndefined, GetUndefined >>, << Prelude, SetDefined >> }

\* the values clock() may return
Clock == { 0, 1 }

(***************************************************************************)
(* The VM (vm.c).  v is the VM: v.stack is stack[0 .. stackTop), v.frames  *)
(* is frames[0 .. frameCount) and a frame is its function, its ip as an    *)
(* offset into the code and its slots as an index into the stack.          *)
(***************************************************************************)
\* FRAMES_MAX (vm.h)
FRAMES_MAX == MaxDepth

\* the globals table (table.c): tableSet tells whether the key is new
tableGet(table, key) ==
  IF key \in DOMAIN table THEN [ found |-> TRUE, value |-> table[key] ]
  ELSE [ found |-> FALSE, value |-> NilValue ]
tableSet(table, key, value) ==
  [ isNewKey |-> key \notin DOMAIN table,
    table |-> [ k \in DOMAIN table \cup { key } |-> IF k = key THEN value ELSE table[k] ] ]
\* C16 mutant: tableDelete that leaves the entry
tableDeleteKeeps(table, key) == table
tableDelete(table, key) == [ k \in DOMAIN table \ { key } |-> table[k] ]

resetStack(v) == [ v EXCEPT !.stack = << >>, !.frames = << >> ]

\* C4 mutant: runtimeError without resetStack
runtimeErrorKeepsStack(v, message) == v

\* C19 mutant: the trace from the script's frame up
RECURSIVE traceOldestFirst(_, _)
traceOldestFirst(v, i) ==
  IF i < 1 THEN << >>
  ELSE traceOldestFirst(v, i - 1)
         \o << IF v.frames[i].function.name = "" THEN "script"
               ELSE v.frames[i].function.name \o "()" >>

\* the lines of the trace from frame i down to the script's frame: the name
\* of the function of the frame (the line number is left out)
RECURSIVE traceFrom(_, _)
traceFrom(v, i) ==
  IF i < 1 THEN << >>
  ELSE << IF v.frames[i].function.name = "" THEN "script"
          ELSE v.frames[i].function.name \o "()" >> \o traceFrom(v, i - 1)

\* runtimeError: the message and the trace go to stderr, then the stacks are reset
runtimeError(v, message) ==
  resetStack([ v EXCEPT !.stderr = @ \o << message >> \o traceFrom(v, Len(v.frames)) ])

\* C12 mutant: call without the check of frameCount
callUnbounded(v, function, argCount) ==
  IF argCount # function.arity
  THEN [ vm |-> runtimeError(v, "Expected %d arguments but got %d."), ok |-> FALSE ]
  ELSE [ vm |-> [ v EXCEPT !.frames = Append(@, [ function |-> function, ip |-> 0,
                                                  slots |-> Len(v.stack) - argCount - 1 ]) ],
         ok |-> TRUE ]

\* call, callNative, callValue: the VM after the call and whether it succeeded
call(v, function, argCount) ==
  IF argCount # function.arity
  THEN [ vm |-> runtimeError(v, "Expected %d arguments but got %d."), ok |-> FALSE ]
  ELSE IF Len(v.frames) = FRAMES_MAX
  THEN [ vm |-> runtimeError(v, "Stack overflow."), ok |-> FALSE ]
  ELSE [ vm |-> [ v EXCEPT !.frames = Append(@, [ function |-> function, ip |-> 0,
                                                  slots |-> Len(v.stack) - argCount - 1 ]) ],
         ok |-> TRUE ]

\* C13 mutant: callNative without the check of the arity
callNativeAnyArity(v, native, argCount, clock) ==
  [ vm |-> [ v EXCEPT !.stack = push(SubSeq(@, 1, Len(@) - (argCount + 1)),
                                     NUMBER_VAL(clock)) ],
    ok |-> TRUE ]

\* clockNative returns the processor time, here the value read from the clock
callNative(v, native, argCount, clock) ==
  IF argCount # native.arity
  THEN [ vm |-> runtimeError(v, "Expected %d arguments but got %d."), ok |-> FALSE ]
  ELSE [ vm |-> [ v EXCEPT !.stack = push(SubSeq(@, 1, Len(@) - (argCount + 1)),
                                          NUMBER_VAL(clock)) ],
         ok |-> TRUE ]

callValue(v, callee, argCount, clock) ==
  IF isObjType(callee, "OBJ_FUNCTION") THEN call(v, callee.as, argCount)
  ELSE IF isObjType(callee, "OBJ_NATIVE") THEN callNative(v, callee.as, argCount, clock)
  ELSE [ vm |-> runtimeError(v, "Can only call functions and classes."), ok |-> FALSE ]

\* valuesEqual (value.h): the same tag and the same payload; two objects are
\* equal when they are the same object
valuesEqual(a, b) ==
  IF a.type # b.type THEN FALSE
  ELSE IF a.type = "VAL_NIL" THEN TRUE
  ELSE IF a.type = "VAL_OBJ" THEN a.as.type = b.as.type /\ a.as = b.as
  ELSE a.as = b.as

isFalsey(value) == IS_NIL(value) \/ (IS_BOOL(value) /\ ~value.as)
falsey(value) == IF IS_NIL(value) \/ (IS_BOOL(value) /\ ~value.as) THEN 1 ELSE 0
truthy(value) == IF ~IS_NIL(value) /\ (~IS_BOOL(value) \/ value.as) THEN 1 ELSE 0

\* OP_CLOSURE: the closure of a function whose upvalueCount is 0 captures
\* nothing and is called as the function itself
closure(function) == function

\* one iteration of the loop of run: the VM after the instruction, the values
\* it printed, and the result run returns with (NONE while it goes on)
run(v, clock) ==
  LET frame == v.frames[Len(v.frames)]
      code == frame.function.code
      instruction == code[frame.ip + 1]
      byte == code[frame.ip + 2]
      short == code[frame.ip + 2] * 256 + code[frame.ip + 3]
      constant == frame.function.constants[byte + 1]
      read(n) == [ v EXCEPT !.frames[Len(v.frames)].ip = @ + n ]
      pushed(w, value) == [ w EXCEPT !.stack = push(@, value) ]
      popped(w, n) == [ w EXCEPT !.stack = SubSeq(@, 1, Len(@) - n) ]
      on(w) == [ vm |-> w, printed |-> << >>, result |-> "NONE" ]
      failed(w, message) == [ vm |-> runtimeError(w, message), printed |-> << >>,
                              result |-> "INTERPRET_RUNTIME_ERROR" ]
      a == peek(v.stack, 1)
      b == peek(v.stack, 0)
  IN CASE instruction = "OP_CONSTANT_LONG" ->
            on(pushed(read(4), frame.function.constants[
                 code[frame.ip + 2] * 65536 + code[frame.ip + 3] * 256
                   + code[frame.ip + 4] + 1]))
       [] instruction = "OP_CONSTANT" -> on(pushed(read(2), constant))
       [] instruction = "OP_NIL" -> on(pushed(read(1), NilValue))
       [] instruction = "OP_TRUE" -> on(pushed(read(1), BOOL_VAL(TRUE)))
       [] instruction = "OP_FALSE" -> on(pushed(read(1), BOOL_VAL(FALSE)))
       [] instruction = "OP_DUP" -> on(pushed(read(1), b))
       [] instruction = "OP_POP" -> on(popped(read(1), 1))
       [] instruction = "OP_SET_LOCAL" ->
            on([ read(2) EXCEPT !.stack[frame.slots + byte + 1] = b ])
       [] instruction = "OP_SET_GLOBAL" ->
            LET set == tableSet(v.globals, constant.as.chars, b)
            IN IF set.isNewKey
               THEN failed([ read(2) EXCEPT
                               !.globals = tableDelete(set.table, constant.as.chars) ],
                           "Undefined variable '%s'.")
               ELSE on([ read(2) EXCEPT !.globals = set.table ])
       [] instruction = "OP_GET_LOCAL" ->
            on(pushed(read(2), v.stack[frame.slots + byte + 1]))
       [] instruction = "OP_GET_GLOBAL" ->
            LET got == tableGet(v.globals, constant.as.chars)
            IN IF ~got.found THEN failed(read(2), "Undefined variable '%s'.")
               ELSE on(pushed(read(2), got.value))
       [] instruction = "OP_DEFINE_GLOBAL" ->
            on(popped([ read(2) EXCEPT
                          !.globals = tableSet(@, constant.as.chars, b).table ], 1))
       [] instruction = "OP_EQUAL" ->
            on(pushed(popped(read(1), 2), BOOL_VAL(valuesEqual(a, b))))
       [] instruction = "OP_LESS" ->
            IF ~IS_NUMBER(b) \/ ~IS_NUMBER(a)
            THEN failed(read(1), "Operands must be numbers.")
            ELSE on(pushed(popped(read(1), 2), BOOL_VAL(a.as < b.as)))
       [] instruction = "OP_JUMP" -> on(read(3 + short))
       [] instruction = "OP_JUMP_IF_FALSE" -> on(read(3 + falsey(b) * short))
       [] instruction = "OP_JUMP_IF_TRUE" -> on(read(3 + truthy(b) * short))
       [] instruction = "OP_LOOP" -> on(read(3 - short))
       [] instruction = "OP_ADD" ->
            IF IS_STRING(b) /\ IS_STRING(a)
            THEN on(pushed(popped(read(1), 2),
                           OBJ_VAL(ObjString(a.as.chars \o b.as.chars))))
            ELSE IF IS_NUMBER(b) /\ IS_NUMBER(a)
            THEN on(pushed(popped(read(1), 2), NUMBER_VAL(a.as + b.as)))
            ELSE failed(read(1), "Operands must be two numbers or two strings.")
       [] instruction = "OP_SUBTRACT" ->
            IF ~IS_NUMBER(b) \/ ~IS_NUMBER(a)
            THEN failed(read(1), "Operands must be numbers.")
            ELSE on(pushed(popped(read(1), 2), NUMBER_VAL(a.as - b.as)))
       [] instruction = "OP_NOT" ->
            on(pushed(popped(read(1), 1), BOOL_VAL(isFalsey(b))))
       [] instruction = "OP_NEGATE" ->
            IF ~IS_NUMBER(b) THEN failed(read(1), "Operand must be a number.")
            ELSE on(pushed(popped(read(1), 1), NUMBER_VAL(0 - b.as)))
       [] instruction = "OP_PRINT" ->
            [ vm |-> popped(read(1), 1), printed |-> << b >>, result |-> "NONE" ]
       [] instruction = "OP_CLOSURE" ->
            on(pushed(read(2), OBJ_VAL(closure(constant.as))))
       [] instruction = "OP_CALL" ->
            LET called == callValue(read(2), peek(v.stack, byte), byte, clock)
            IN IF ~called.ok
               THEN [ vm |-> called.vm, printed |-> << >>,
                      result |-> "INTERPRET_RUNTIME_ERROR" ]
               ELSE on(called.vm)
       [] instruction = "OP_RETURN" ->
            LET returned == [ popped(read(1), 1) EXCEPT
                                !.frames = SubSeq(@, 1, Len(@) - 1) ]
            IN IF Len(returned.frames) = 0
               THEN [ vm |-> popped(returned, 1), printed |-> << >>,
                      result |-> "INTERPRET_OK" ]
               ELSE on(pushed([ returned EXCEPT !.stack = SubSeq(@, 1, frame.slots) ], b))

\* interpret up to the call of run
interpret(v, source, left) ==
  Bind([ function \in { compile(source, left) } |->
    IF function.type = "DIVERGES" THEN [ vm |-> v, result |-> "COMPILING" ]
    ELSE IF function.type = "NULL" THEN [ vm |-> v, result |-> "INTERPRET_COMPILE_ERROR" ]
    ELSE [ vm |-> call([ v EXCEPT !.stack = push(@, OBJ_VAL(function)) ],
                       function, 0).vm,
           result |-> "NONE" ] ])

\* initVM: empty stacks and the native clock among the globals
initVM ==
  [ stack |-> << >>, frames |-> << >>, stderr |-> << >>,
    globals |-> tableSet(<< >>, "clock", OBJ_VAL(ObjNative("clockNative", 0))).table ]
InterpretResults == { "INTERPRET_OK", "INTERPRET_COMPILE_ERROR", "INTERPRET_RUNTIME_ERROR" }

\* interpret is called on the next source: interpreted records the source,
\* what compile reported and returned, the VM at the call and at the return,
\* the number of instructions run executed, what they printed, and the
\* result; a compile that does not return leaves the call at COMPILING
InterpretLine ==
  /\ line <= Len(lines)
  /\ \A i \in { Len(interpreted) } \ { 0 } : interpreted[i].result \in InterpretResults
  /\ \E source \in { lines[line] } :
     \E entered \in { interpret(vm, source, parser) } :
     \E parsed \in { parse(source, parser) } :
        /\ vm' = entered.vm
        /\ parser' = parsed
        /\ interpreted' =
             Append(interpreted,
                    [ source |-> source, reported |-> parsed.errors,
                      recovered |-> parsed.recovered,
                      function |-> compile(source, parser).type,
                      before |-> vm, after |-> entered.vm, executed |-> 0,
                      at |-> vm, instruction |-> "NONE",
                      failedAt |-> [ frameCount |-> 0, stackTop |-> 0 ],
                      printed |-> << >>,
                      result |-> entered.result ])
        /\ line' = IF entered.result \in InterpretResults THEN line + 1 ELSE line
  /\ UNCHANGED << lines, output, compiling, heapVars, storageVars >>

\* the instruction run executes next
instructionAt(v) ==
  v.frames[Len(v.frames)].function.code[v.frames[Len(v.frames)].ip + 1]

\* ip is past the code of its chunk: the jump that led here was never patched
pastCode(v) == v.frames[Len(v.frames)].ip >= Len(v.frames[Len(v.frames)].function.code)

\* what the next turn of the loop of run may do: past the code READ_BYTE reads
\* memory that is not the chunk's, and run may end in any way or not at all
turns(v, clock) ==
  IF pastCode(v)
  THEN { [ vm |-> v, printed |-> << >>, result |-> result ] :
           result \in InterpretResults \cup { "CRASHED" } }
  ELSE { run(v, clock) }

\* run executes the next instruction of the source being interpreted: at is
\* the VM before it
Run ==
  /\ interpreted # << >>
  /\ interpreted[Len(interpreted)].result = "NONE"
  /\ \E clock \in Clock :
       \E done \in turns(vm, clock) :
          /\ vm' = done.vm
          /\ output' = output \o done.printed
          /\ interpreted' =
               [ interpreted EXCEPT ![Len(interpreted)] =
                   [ @ EXCEPT !.executed = @ + 1,
                              !.after = done.vm,
                              !.at = vm,
                              !.instruction = IF pastCode(vm) THEN "NONE"
                                              ELSE instructionAt(vm),
                              !.failedAt =
                                 IF done.result = "INTERPRET_RUNTIME_ERROR"
                                 THEN [ frameCount |-> Len(vm.frames),
                                        stackTop |-> Len(vm.stack) ]
                                 ELSE @,
                              !.printed = @ \o done.printed,
                              !.result = done.result ] ]
          /\ line' = IF done.result \in InterpretResults THEN line + 1 ELSE line
  /\ UNCHANGED << lines, parser, compiling, heapVars, storageVars >>

InitLang ==
  /\ InitHeap /\ program = << >> /\ ip = 1 /\ NoStorage
  /\ vm = initVM
  /\ lines \in LangSessions
  /\ line = 1
  /\ output = << >>
  /\ interpreted = << >>
  /\ parser = initParser
  /\ compiling = "idle"

NextLang == InterpretLine \/ Run

SpecLang == InitLang /\ [][NextLang]_vars

(***************************************************************************)
(* Claims about compile, interpret and run.                                *)
(***************************************************************************)
Finished == line > Len(lines)

\* C3: closures capture variables: the function makeCounter returns reads and
\* writes the local n of makeCounter, also after makeCounter has returned, so
\* the three calls see each other's writes and the program prints 1, 2, 3.
C3_CounterPrints123 ==
  (Finished /\ lines[Len(lines)] = MakeCounter) =>
     /\ interpreted[Len(lines)].result = "INTERPRET_OK"
     /\ Len(output) = 3
     /\ \A i \in 1..3 : IS_NUMBER(output[i]) /\ output[i].as = i

\* C4: when run returns with a runtime error the value stack is empty and
\* no frame is left, and the next interpret call on a valid source returns
\* INTERPRET_OK.
C4_RuntimeErrorResets ==
  \A i \in DOMAIN interpreted :
    interpreted[i].result = "INTERPRET_RUNTIME_ERROR" =>
      /\ interpreted[i].after.stack = << >>
      /\ interpreted[i].after.frames = << >>
      /\ i = Len(interpreted) => (vm.stack = << >> /\ vm.frames = << >>)
      /\ \A j \in DOMAIN interpreted :
           ( /\ j = i + 1
             /\ interpreted[j].source \in ValidSources
             /\ interpreted[j].result \in InterpretResults )
           => interpreted[j].result = "INTERPRET_OK"

\* a runtime error inside a called function, with values on the stack, was
\* followed by a valid source that ran to the end
C4_Witness ==
  \E i \in DOMAIN interpreted :
    /\ interpreted[i].result = "INTERPRET_RUNTIME_ERROR"
    /\ interpreted[i].failedAt.frameCount >= 2
    /\ interpreted[i].failedAt.stackTop >= 3
    /\ i + 1 \in DOMAIN interpreted
    /\ interpreted[i + 1].source \in ValidSources
    /\ interpreted[i + 1].executed > 0
    /\ interpreted[i + 1].result = "INTERPRET_OK"

operandAt(v) == v.frames[Len(v.frames)].function.code[v.frames[Len(v.frames)].ip + 2]
calleeAt(v) == peek(v.stack, operandAt(v))
nameAt(v) == v.frames[Len(v.frames)].function.constants[operandAt(v) + 1].as.chars
\* what runtimeError wrote for the error at r.at
Reported(r) == SubSeq(r.after.stderr, Len(r.at.stderr) + 1, Len(r.after.stderr))

\* C12: there are never more than FRAMES_MAX frames; OP_CALL of a function
\* with its arity while frameCount is FRAMES_MAX pushes no frame and is the
\* runtime error "Stack overflow."; the function that calls itself without
\* end stops with that error
C12_FramesBounded ==
  /\ Len(vm.frames) <= FRAMES_MAX
  /\ \A i \in DOMAIN interpreted :
       /\ ( /\ interpreted[i].instruction = "OP_CALL"
            /\ Len(interpreted[i].at.frames) = FRAMES_MAX
            /\ isObjType(calleeAt(interpreted[i].at), "OBJ_FUNCTION")
            /\ calleeAt(interpreted[i].at).as.arity = operandAt(interpreted[i].at) )
          => /\ interpreted[i].result = "INTERPRET_RUNTIME_ERROR"
             /\ interpreted[i].after.frames = << >>
             /\ Reported(interpreted[i])[1] = "Stack overflow."
       /\ ( /\ interpreted[i].source = Recursion
            /\ interpreted[i].result \in InterpretResults )
          => /\ interpreted[i].result = "INTERPRET_RUNTIME_ERROR"
             /\ Reported(interpreted[i])[1] = "Stack overflow."

C12_Witness ==
  \E i \in DOMAIN interpreted :
    /\ interpreted[i].source = Recursion
    /\ interpreted[i].instruction = "OP_CALL"
    /\ Len(interpreted[i].at.frames) = FRAMES_MAX
    /\ interpreted[i].result = "INTERPRET_RUNTIME_ERROR"

\* C13: OP_CALL of a function or of a native with an argument count that is
\* not its arity is a runtime error: run returns INTERPRET_RUNTIME_ERROR at
\* this instruction, no frame is left or pushed, nothing is pushed or printed
C13_ArityChecked ==
  \A i \in DOMAIN interpreted :
    ( /\ interpreted[i].instruction = "OP_CALL"
      /\ \/ isObjType(calleeAt(interpreted[i].at), "OBJ_FUNCTION")
         \/ isObjType(calleeAt(interpreted[i].at), "OBJ_NATIVE")
      /\ calleeAt(interpreted[i].at).as.arity # operandAt(interpreted[i].at) )
    => /\ interpreted[i].result = "INTERPRET_RUNTIME_ERROR"
       /\ interpreted[i].after.frames = << >>
       /\ interpreted[i].after.stack = << >>
       /\ interpreted[i].after.globals = interpreted[i].at.globals
       /\ Reported(interpreted[i])[1] = "Expected %d arguments but got %d."

C13_Witness ==
  \E i \in DOMAIN interpreted :
    /\ interpreted[i].instruction = "OP_CALL"
    /\ isObjType(calleeAt(interpreted[i].at), "OBJ_NATIVE")
    /\ operandAt(interpreted[i].at) = 1
    /\ interpreted[i].result = "INTERPRET_RUNTIME_ERROR"

nameOf(frame) ==
  IF frame.function.name = "" THEN "script" ELSE frame.function.name \o "()"

\* C19: a runtime error prints, after its message, one line for each active
\* frame from the newest to the oldest, the last one that of the script; the
\* error in b called by a called by the script prints b, a, script
C19_TraceNewestFirst ==
  \A i \in DOMAIN interpreted :
    /\ interpreted[i].result = "INTERPRET_RUNTIME_ERROR"
       => /\ Len(Reported(interpreted[i])) = Len(interpreted[i].at.frames) + 1
          /\ \A k \in 1 .. Len(interpreted[i].at.frames) :
               Reported(interpreted[i])[k + 1] =
                 nameOf(interpreted[i].at.frames[Len(interpreted[i].at.frames) - k + 1])
          /\ Reported(interpreted[i])[Len(Reported(interpreted[i]))] = "script"
    /\ ( /\ interpreted[i].source = StackTrace
         /\ interpreted[i].result \in InterpretResults )
       => /\ interpreted[i].result = "INTERPRET_RUNTIME_ERROR"
          /\ Reported(interpreted[i]) =
               << "Operands must be two numbers or two strings.", "b()", "a()", "script" >>

C19_Witness ==
  \E i \in DOMAIN interpreted :
    /\ interpreted[i].source = StackTrace
    /\ interpreted[i].result = "INTERPRET_RUNTIME_ERROR"
    /\ Len(interpreted[i].at.frames) = 3
    /\ interpreted[i].instruction = "OP_ADD"

\* the line interpreted last has returned with INTERPRET_OK
Returned(source) ==
  /\ interpreted # << >>
  /\ interpreted[Len(interpreted)].source = source
  /\ interpreted[Len(interpreted)].result = "INTERPRET_OK"
Printed(texts) == output = [ i \in DOMAIN texts |-> OBJ_VAL(ObjString(texts[i])) ]

\* C14 as claimed: the call of a class with no argument yields an instance:
\* class A {} A(); compiles and returns INTERPRET_OK, and an OP_CALL with no
\* argument whose callee is a class leaves an instance in the callee's slot
C14_ClassCallMakesInstance ==
  \A i \in DOMAIN interpreted :
    /\ ( /\ interpreted[i].source = ClassCall
         /\ interpreted[i].result \in InterpretResults )
       => interpreted[i].result = "INTERPRET_OK"
    /\ ( /\ interpreted[i].instruction = "OP_CALL"
         /\ isObjType(calleeAt(interpreted[i].at), "OBJ_CLASS")
         /\ operandAt(interpreted[i].at) = 0 )
       => /\ interpreted[i].result = "NONE"
          /\ isObjType(peek(interpreted[i].after.stack, 0), "OBJ_INSTANCE")

\* C18 as amended: with x = 1 the switch whose case 1 ends with fallthrough
\* prints one and two and, case 2 ending without fallthrough, jumps over the
\* default body; with fallthrough at the end of case 2 as well it prints
\* one, two, end; the default body runs when no case equals the selector
C18_FallthroughRunsNextCase ==
  /\ \A i \in DOMAIN interpreted :
       ( /\ interpreted[i].source
               \in { SwitchFallthrough, SwitchFallthroughAll, SwitchDefault }
         /\ interpreted[i].result \in InterpretResults )
       => /\ interpreted[i].result = "INTERPRET_OK"
          /\ interpreted[i].after.stack = << >>
  /\ Returned(SwitchFallthrough) => Printed(<< "one", "two" >>)
  /\ Returned(SwitchFallthroughAll) => Printed(<< "one", "two", "end" >>)
  /\ Returned(SwitchDefault) => Printed(<< "end" >>)

C18_Witness == Returned(SwitchFallthrough) /\ Len(output) = 2

\* C18 as claimed: with x = 1 the switch prints one, two, end
C18_DefaultRunsToo == Returned(SwitchFallthrough) => Printed(<< "one", "two", "end" >>)

(***************************************************************************)
(* The value stack as storage (vm.c).  vm.stack points to a block of       *)
(* stackCapacity Values that GROW_ARRAY reallocates: realloc extends the   *)
(* block where it is or moves it and frees the old one.  A pointer is the  *)
(* block it points into and the offset in it; base is the slot index a     *)
(* frame was given by call, kept to compare the pointer with.              *)
(***************************************************************************)
MaxSlots == 2     \* slots of the stack before it grows
MaxPushes == 2    \* slots used beyond that

\* STACK_MAX (vm.h), the capacity initVM gives the stack
STACK_MAX == MaxSlots

StackValues == { 1, 2 }
Pointer(area, offset) == [ block |-> area, offset |-> offset ]
Dangling(m, pointer) == pointer.block # m.stack

\* initVM and interpret up to run: the script function in slot 0 and the
\* frame of the script over it
initStorage ==
  [ stack |-> 1, stackCapacity |-> STACK_MAX,
    values |-> [ i \in 1..STACK_MAX |-> IF i = 1 THEN 1 ELSE 0 ],
    stackTop |-> Pointer(1, 1),
    frames |-> << [ slots |-> Pointer(1, 0), base |-> 0 ] >>,
    blocks |-> 1,
    last |-> [ op |-> "interpret", grew |-> FALSE, top |-> 0, base |-> 0, result |-> 0,
               frameCount |-> 0 ] ]

\* GROW_ARRAY on vm.stack: the block with the old Values at its start, at
\* the old address or at a new one
reallocate(m, newCapacity, moved) ==
  [ m EXCEPT !.stack = IF moved THEN m.blocks + 1 ELSE @,
             !.blocks = IF moved THEN @ + 1 ELSE @,
             !.values = [ i \in 1..newCapacity |-> IF i <= Len(m.values) THEN m.values[i] ELSE 0 ] ]

\* *pointer = value: a write through a pointer into the freed block does not
\* reach the stack
store(m, pointer, value) ==
  IF Dangling(m, pointer) THEN m
  ELSE [ m EXCEPT !.values[pointer.offset + 1] = value ]
\* *pointer: a read through a pointer into the freed block gives any Value
load(m, pointer) ==
  IF Dangling(m, pointer) THEN StackValues
  ELSE { m.values[pointer.offset + 1] }

\* push: stackTop is rebased on the new block, the frames are left alone
pushStorage(m, value, moved) ==
  Bind([ grown \in
           { IF m.stackTop.offset >= m.stackCapacity
             THEN [ reallocate(m, GROW_CAPACITY(m.stackCapacity), moved) EXCEPT
                      !.stackCapacity = GROW_CAPACITY(m.stackCapacity),
                      !.stackTop = Pointer(IF moved THEN m.blocks + 1 ELSE m.stack,
                                           m.stackCapacity) ]
             ELSE m } |->
    [ store(grown, grown.stackTop, value) EXCEPT !.stackTop.offset = @ + 1 ] ])

popStorage(m) == [ m EXCEPT !.stackTop.offset = @ - 1 ]

\* call, below FRAMES_MAX and with the arity of the function
callStorage(m, argCount) ==
  [ m EXCEPT !.frames = Append(@, [ slots |-> Pointer(m.stackTop.block,
                                                      m.stackTop.offset - argCount - 1),
                                    base |-> m.stackTop.offset - argCount - 1 ]) ]

TopFrame == machine.frames[Len(machine.frames)]
\* run goes on while there is a frame and stackTop points into the stack
Intact == machine.frames # << >> /\ ~Dangling(machine, machine.stackTop)
Did(m, op, grew, result) ==
  [ m EXCEPT !.last = [ op |-> op, grew |-> grew, top |-> machine.stackTop.offset,
                        base |-> TopFrame.base, result |-> result,
                        frameCount |-> Len(machine.frames) ] ]
Full == machine.stackTop.offset >= machine.stackCapacity
Room == machine.stackTop.offset < STACK_MAX + MaxPushes
StorageIdle == UNCHANGED << heapVars, langVars, hashTable, assembly, memory >>

\* OP_CONSTANT and the like: push(value)
Push ==
  /\ Intact /\ Room
  /\ \E value \in StackValues, moved \in BOOLEAN :
       machine' = Did(pushStorage(machine, value, moved), "push", Full, value)
  /\ StorageIdle

\* OP_POP, above the slots the frame began with
Pop ==
  /\ Intact
  /\ machine.stackTop.offset > TopFrame.base + 1
  /\ machine' = Did(popStorage(machine), "pop", FALSE, 0)
  /\ StorageIdle

\* OP_GET_LOCAL: push(frame->slots[slot])
GetLocal ==
  /\ Intact /\ Room
  /\ \E slot \in 0..(machine.stackTop.offset - TopFrame.base - 1), moved \in BOOLEAN :
     \E value \in load(machine, Pointer(TopFrame.slots.block, TopFrame.slots.offset + slot)) :
       machine' = Did(pushStorage(machine, value, moved), "OP_GET_LOCAL", Full, value)
  /\ StorageIdle

\* OP_SET_LOCAL: frame->slots[slot] = peek(0)
SetLocal ==
  /\ Intact
  /\ \E slot \in 0..(machine.stackTop.offset - TopFrame.base - 1) :
       machine' = Did(store(machine,
                            Pointer(TopFrame.slots.block, TopFrame.slots.offset + slot),
                            machine.values[machine.stackTop.offset]),
                      "OP_SET_LOCAL", FALSE, 0)
  /\ StorageIdle

\* OP_CALL of a function with argCount parameters
Call ==
  /\ Intact
  /\ Len(machine.frames) < FRAMES_MAX
  /\ \E argCount \in 0..1 :
       /\ machine.stackTop.offset - argCount - 1 > TopFrame.base
       /\ machine' = Did(callStorage(machine, argCount), "OP_CALL", FALSE, 0)
  /\ StorageIdle

\* OP_RETURN: result = pop(), and for a frame that is not the last one
\* vm.stackTop = frame->slots and push(result); the script's frame pops the
\* script function
Return ==
  /\ Intact
  /\ \E result \in { machine.values[machine.stackTop.offset] } :
     \E left \in { [ popStorage(machine) EXCEPT
                       !.frames = SubSeq(@, 1, Len(@) - 1) ] } :
       machine' =
         Did(IF left.frames = << >> THEN popStorage(left)
             ELSE IF Dangling(machine, TopFrame.slots)
             THEN [ left EXCEPT !.stackTop = Pointer(TopFrame.slots.block,
                                                     TopFrame.slots.offset + 1) ]
             ELSE pushStorage([ left EXCEPT !.stackTop = TopFrame.slots ], result, FALSE),
             "OP_RETURN", FALSE, result)
  /\ StorageIdle

InitStorage ==
  /\ InitHeap /\ program = << >> /\ ip = 1 /\ NoLines
  /\ machine = initStorage /\ hashTable = << >> /\ assembly = << >> /\ memory = << >>

NextStorage == Push \/ Pop \/ GetLocal \/ SetLocal \/ Call \/ Return

SpecStorage == InitStorage /\ [][NextStorage]_vars

\* C11: when push has grown the stack, stackTop is the slot after the one it
\* was at, and the slots of every frame point to the slot of the stack that
\* call gave the frame
C11_GrowKeepsSlots ==
  (machine.last.op = "push" /\ machine.last.grew) =>
     /\ machine.stackTop = Pointer(machine.stack, machine.last.top + 1)
     /\ \A f \in DOMAIN machine.frames :
          machine.frames[f].slots = Pointer(machine.stack, machine.frames[f].base)

\* C15: after OP_RETURN from a frame that is not the script's, stackTop is
\* the slot after the frame's base, the base slot holds the returned value
\* and there is one frame less (this VM opens no upvalues)
C15_ReturnRestoresStack ==
  (machine.last.op = "OP_RETURN" /\ machine.last.frameCount > 1) =>
     /\ machine.stackTop = Pointer(machine.stack, machine.last.base + 1)
     /\ machine.values[machine.last.base + 1] = machine.last.result
     /\ Len(machine.frames) = machine.last.frameCount - 1

\* C17 as claimed, for two strings: when concatenate has returned, the
\* value it pushed is the interned string whose bytes are those of the first
\* operand followed by those of the second, and no other interned string has
\* these bytes
C17_AddConcatenates ==
  (lastOp.op = "concatenate" /\ lastOp.result # NULL /\ pc = "idle") =>
     /\ heap[lastOp.result].chars = heap[lastOp.arg[1]].chars \o heap[lastOp.arg[2]].chars
     /\ lastOp.result \in strings
     /\ \A s \in strings :
          heap[s].chars = heap[lastOp.result].chars => s = lastOp.result

(***************************************************************************)
(* The hash table of table.h: open addressing with linear probing, a       *)
(* tombstone in place of a deleted entry, and twice the capacity when the  *)
(* load passes 0.75.  hashTable holds a Table, the map from the keys to    *)
(* the values last set and not deleted since, and the last call.  A key is *)
(* an interned string, given by a number, with its hash.  A behaviour      *)
(* starts after tableSet of the first keys in turn and goes on with any    *)
(* MaxCalls calls of tableSet and tableDelete, and any calls of tableGet.  *)
(***************************************************************************)
MaxKeys == 7     \* strings used as keys
MaxValues == 2   \* values set
MaxCalls == 2    \* calls of tableSet and tableDelete after the first ones

TableKeys == 1 .. MaxKeys
TableValues == { NUMBER_VAL(n) : n \in 1 .. MaxValues }
\* the hash of a key: the keys fall on two chains at every capacity up to 16
hashOf(key) == 16 * (key \div 2) + (key % 2)

Entry(key, value) == [ key |-> key, value |-> value ]
\* initTable
initTable == [ count |-> 0, capacity |-> 0, entries |-> << >> ]

\* findEntry: the index of the entry of key, otherwise of the first tombstone
\* passed, otherwise of the empty entry that ends the probe
RECURSIVE probe(_, _, _, _, _)
probe(entries, capacity, key, index, tombstone) ==
  IF entries[index + 1].key = NULL
  THEN IF IS_NIL(entries[index + 1].value)
       THEN (IF tombstone # -1 THEN tombstone ELSE index)
       ELSE probe(entries, capacity, key, (index + 1) % capacity,
                  IF tombstone = -1 THEN index ELSE tombstone)
  ELSE IF entries[index + 1].key = key THEN index
  ELSE probe(entries, capacity, key, (index + 1) % capacity, tombstone)
findEntry(entries, capacity, key) == probe(entries, capacity, key, hashOf(key) % capacity, -1)

\* adjustCapacity: the entries with a key are entered again, the tombstones
\* are left behind
RECURSIVE reenter(_, _, _)
reenter(table, old, i) ==
  IF i > Len(old) THEN table
  ELSE IF old[i].key = NULL THEN reenter(table, old, i + 1)
  ELSE reenter([ table EXCEPT
                   !.entries[findEntry(table.entries, table.capacity, old[i].key) + 1] = old[i],
                   !.count = @ + 1 ],
               old, i + 1)
adjustCapacity(table, capacity) ==
  reenter([ count |-> 0, capacity |-> capacity,
            entries |-> [ i \in 1 .. capacity |-> Entry(NULL, NilValue) ] ],
          table.entries, 1)

\* C20 mutant: tableDelete that empties the entry
tableDeleteEmpties(table, key) ==
  IF table.count = 0 THEN [ table |-> table, ret |-> FALSE ]
  ELSE Bind([ index \in { findEntry(table.entries, table.capacity, key) } |->
         IF table.entries[index + 1].key = NULL THEN [ table |-> table, ret |-> FALSE ]
         ELSE [ table |-> [ table EXCEPT !.entries[index + 1] = Entry(NULL, NilValue) ],
                ret |-> TRUE ] ])

\* tableGet, tableSet, tableDelete on the entries: the table after the call
\* and what the call returns
tableGetEntry(table, key) ==
  IF table.count = 0 THEN [ found |-> FALSE, value |-> NilValue ]
  ELSE Bind([ index \in { findEntry(table.entries, table.capacity, key) } |->
         IF table.entries[index + 1].key = NULL THEN [ found |-> FALSE, value |-> NilValue ]
         ELSE [ found |-> TRUE, value |-> table.entries[index + 1].value ] ])

tableSetEntry(table, key, value) ==
  Bind([ grown \in { IF 4 * (table.count + 1) > 3 * table.capacity  \* TABLE_MAX_LOAD 0.75
                     THEN adjustCapacity(table, GROW_CAPACITY(table.capacity))
                     ELSE table } |->
  Bind([ index \in { findEntry(grown.entries, grown.capacity, key) } |->
    [ table |-> [ grown EXCEPT
                    !.entries[index + 1] = Entry(key, value),
                    !.count = IF grown.entries[index + 1].key = NULL
                                 /\ IS_NIL(grown.entries[index + 1].value)
                              THEN @ + 1 ELSE @ ],
      ret |-> grown.entries[index + 1].key = NULL ] ]) ])

tableDeleteEntry(table, key) ==
  IF table.count = 0 THEN [ table |-> table, ret |-> FALSE ]
  ELSE Bind([ index \in { findEntry(table.entries, table.capacity, key) } |->
         IF table.entries[index + 1].key = NULL THEN [ table |-> table, ret |-> FALSE ]
         ELSE [ table |-> [ table EXCEPT !.entries[index + 1] = Entry(NULL, BOOL_VAL(TRUE)) ],
                ret |-> TRUE ] ])

TableIdle == UNCHANGED << heapVars, langVars, machine, assembly, memory >>
NoCall == [ op |-> "none", key |-> NULL, found |-> FALSE, value |-> NilValue ]

TableSet ==
  /\ hashTable.calls < MaxCalls
  /\ \E key \in TableKeys, value \in TableValues :
       hashTable' = [ table |-> tableSetEntry(hashTable.table, key, value).table,
                      set |-> [ hashTable.set EXCEPT ![key] = value ],
                      last |-> NoCall, calls |-> hashTable.calls + 1 ]
  /\ TableIdle

TableDelete ==
  /\ hashTable.calls < MaxCalls
  /\ \E key \in TableKeys :
       hashTable' = [ table |-> tableDeleteEntry(hashTable.table, key).table,
                      set |-> [ hashTable.set EXCEPT ![key] = NilValue ],
                      last |-> NoCall, calls |-> hashTable.calls + 1 ]
  /\ TableIdle

TableGet ==
  /\ \E key \in TableKeys :
       hashTable' = [ hashTable EXCEPT
                        !.last = [ op |-> "tableGet", key |-> key,
                                   found |-> tableGetEntry(hashTable.table, key).found,
                                   value |-> tableGetEntry(hashTable.table, key).value ] ]
  /\ TableIdle

\* the table after tableSet of the keys 1 to k in turn
RECURSIVE firstSet(_)
firstSet(k) ==
  IF k = 0 THEN initTable ELSE tableSetEntry(firstSet(k - 1), k, NUMBER_VAL(1)).table

InitTable ==
  /\ InitHeap /\ NoLines /\ program = << >> /\ ip = 1
  /\ machine = << >> /\ assembly = << >> /\ memory = << >>
  /\ \E k \in 0 .. MaxKeys - 1 :
       hashTable = [ table |-> firstSet(k),
                     set |-> [ key \in TableKeys |->
                                 IF key <= k THEN NUMBER_VAL(1) ELSE NilValue ],
                     last |-> NoCall, calls |-> 0 ]

NextTable == TableSet \/ TableDelete \/ TableGet

SpecTable == InitTable /\ [][NextTable]_vars

\* entries between the start of the probe of a key and its entry
RECURSIVE passed(_, _, _, _)
passed(entries, capacity, key, index) ==
  IF entries[index + 1].key = key \/ (entries[index + 1].key = NULL
                                      /\ IS_NIL(entries[index + 1].value))
  THEN << >>
  ELSE << entries[index + 1] >> \o passed(entries, capacity, key, (index + 1) % capacity)

\* C20: after any sequence of tableSet and tableDelete, resizes included,
\* tableGet of a key finds the value last set for it if the key was set and
\* not deleted since, and finds nothing otherwise; and so does every
\* tableGet made
C20_GetFindsLastSet ==
  /\ \A key \in TableKeys :
       /\ tableGetEntry(hashTable.table, key).found = ~IS_NIL(hashTable.set[key])
       /\ tableGetEntry(hashTable.table, key).value = hashTable.set[key]
  /\ hashTable.last.op = "tableGet" =>
       /\ hashTable.last.found = ~IS_NIL(hashTable.set[hashTable.last.key])
       /\ hashTable.last.value = hashTable.set[hashTable.last.key]

\* a tableGet that found its key behind a tombstone, after a resize
C20_Witness ==
  /\ hashTable.last.op = "tableGet" /\ hashTable.last.found
  /\ hashTable.table.capacity = 16
  /\ \E i \in DOMAIN passed(hashTable.table.entries, hashTable.table.capacity,
                            hashTable.last.key, hashOf(hashTable.last.key) % 16) :
       passed(hashTable.table.entries, hashTable.table.capacity, hashTable.last.key,
              hashOf(hashTable.last.key) % 16)[i].key = NULL

(***************************************************************************)
(* A Chunk by itself (chunk.c) and the jumps the compiler writes into it.   *)
(* assembly.p is the parser state of a compile whose script Compiler holds  *)
(* the chunk; the other fields record the calls made: the line passed for   *)
(* each byte, the constants written with the offset of their instruction    *)
(* and the index addConstant returned, and the jumps and loops emitted.     *)
(***************************************************************************)
MaxWrites == 3     \* calls of writeChunk and writeConstant after the first constants
MaxEmits == 4      \* calls that write straight-line code, jumps and loops
MaxLine == 2       \* source lines the bytes come from

ChunkBytes == { "OP_NIL", "OP_POP" }
ChunkValues == { NUMBER_VAL(7), BOOL_VAL(TRUE) }
JumpInstructions == { "OP_JUMP", "OP_JUMP_IF_FALSE", "OP_JUMP_IF_TRUE" }
\* the lengths of the runs of bytes that straight-line code puts between a
\* jump and its target
Runs == { 1, UINT16_MAX - 3, UINT16_MAX }
\* the code it is cut off at
MaxCode == UINT16_MAX + 8
\* the numbers of constants a chunk holds when the calls start
Prefilled == { 0, UINT8_COUNT - 1, UINT8_COUNT, UINT8_COUNT + 1 }

chunkOf(a) == a.p.compilers[1].function

\* the chunk after a call, and the line passed for each byte the call wrote
noted(a, chunk, atLine) ==
  [ a EXCEPT !.p.compilers[1].function = chunk,
             !.written = @ \o [ i \in 1..(Len(chunk.code) - Len(@)) |-> atLine ],
             !.calls = @ + 1 ]

\* a call of writeConstant: stored keeps the offset of the instruction, the
\* index of the constant and the value
constantWritten(a, value, atLine) ==
  [ noted(a, writeConstant(chunkOf(a), value, atLine), atLine) EXCEPT
      !.stored = Append(@, [ offset |-> Len(chunkOf(a).code),
                             index |-> Len(chunkOf(a).constants),
                             value |-> value ]) ]

\* the calls writeConstant(from, 1), ..., writeConstant(to, 1), one after the other
RECURSIVE constantsWritten(_, _, _)
constantsWritten(a, from, to) ==
  IF from > to THEN a
  ELSE IF from = to THEN constantWritten(a, NUMBER_VAL(from), 1)
  ELSE Bind([ half \in { constantsWritten(a, from, (from + to) \div 2) } |->
         constantsWritten(half, (from + to) \div 2 + 1, to) ])

initAssembly ==
  [ p |-> beginCompile(<< >>, initParser), written |-> << >>, stored |-> << >>,
    jumps |-> << >>, loops |-> << >>, calls |-> 0 ]

WriteChunk ==
  /\ assembly.calls < MaxWrites
  /\ \E byte \in ChunkBytes, atLine \in 1..MaxLine :
       assembly' = noted(assembly, writeChunk(chunkOf(assembly), byte, atLine), atLine)
  /\ UNCHANGED << heapVars, langVars, machine, hashTable, memory >>

\* the bytes of straight-line code, all of one line
WriteRun ==
  /\ assembly.calls < MaxEmits
  /\ \E n \in Runs :
       /\ Len(chunkOf(assembly).code) + n <= MaxCode
       /\ assembly' = noted(assembly, writeChunks(chunkOf(assembly), "OP_NIL", 1, n), 1)
  /\ UNCHANGED << heapVars, langVars, machine, hashTable, memory >>

WriteConstant ==
  /\ assembly.calls < MaxWrites
  /\ \E value \in ChunkValues, atLine \in 1..MaxLine :
       assembly' = constantWritten(assembly, value, atLine)
  /\ UNCHANGED << heapVars, langVars, machine, hashTable, memory >>

\* emitJump: jumps keeps the offset it returned; target is -1 until the patch
EmitJump ==
  /\ assembly.calls < MaxEmits
  /\ \E instruction \in JumpInstructions :
     \E q \in { emitJump(assembly.p, instruction) } :
       assembly' =
         [ noted([ assembly EXCEPT !.p = q ], currentChunk(q), q.previous.line) EXCEPT
             !.jumps = Append(@, [ offset |-> q.ret, target |-> -1 ]) ]
  /\ UNCHANGED << heapVars, langVars, machine, hashTable, memory >>

\* patchJump on a jump that is not patched yet: target is the end of the chunk
PatchJump ==
  /\ assembly.calls < MaxEmits
  /\ \E j \in DOMAIN assembly.jumps :
       /\ assembly.jumps[j].target = -1
       /\ assembly' =
            [ assembly EXCEPT
                !.p = patchJump(@, assembly.jumps[j].offset),
                !.jumps[j].target = Len(chunkOf(assembly).code),
                !.calls = @ + 1 ]
  /\ UNCHANGED << heapVars, langVars, machine, hashTable, memory >>

\* emitLoop back to an offset of the chunk: loops keeps the offset of OP_LOOP
EmitLoop ==
  /\ assembly.calls < MaxEmits
  /\ \E loopStart \in 0..2 :
       /\ loopStart <= Len(chunkOf(assembly).code)
       /\ \E q \in { emitLoop(assembly.p, loopStart) } :
            assembly' =
              [ noted([ assembly EXCEPT !.p = q ], currentChunk(q), q.previous.line)
                EXCEPT !.loops = Append(@, [ offset |-> Len(chunkOf(assembly).code),
                                             loopStart |-> loopStart ]) ]
  /\ UNCHANGED << heapVars, langVars, machine, hashTable, memory >>

InitChunk ==
  /\ InitHeap /\ NoLines /\ program = << >> /\ ip = 1
  /\ machine = << >> /\ hashTable = << >> /\ memory = << >>
  /\ \E k \in Prefilled :
       assembly = [ constantsWritten(initAssembly, 0, k - 1) EXCEPT !.calls = 0 ]

NextChunk == WriteChunk \/ WriteConstant

SpecChunk == InitChunk /\ [][NextChunk]_vars

InitJump ==
  /\ InitHeap /\ NoLines /\ program = << >> /\ ip = 1
  /\ machine = << >> /\ hashTable = << >> /\ memory = << >>
  /\ assembly = initAssembly

NextJump == WriteRun \/ EmitJump \/ PatchJump \/ EmitLoop

SpecJump == InitJump /\ [][NextJump]_vars

\* the sum of the run lengths of the line table from entry i on
RECURSIVE runLengths(_, _)
runLengths(lineInfo, i) ==
  IF i > Len(lineInfo) THEN 0 ELSE lineInfo[i].run_length + runLengths(lineInfo, i + 1)

\* C21: for every chunk built by calls of writeChunk (those of writeConstant
\* among them) and every offset below its count, getLine returns the line that
\* was passed when the byte at that offset was written, and the run lengths of
\* the line table sum to the count
C21_GetLineReturnsWrittenLine ==
  /\ \A o \in 0..(Len(chunkOf(assembly).code) - 1) :
       getLine(chunkOf(assembly), o) = assembly.written[o + 1]
  /\ runLengths(chunkOf(assembly).lines, 1) = Len(chunkOf(assembly).code)

\* C21 witness: bytes of line 1, then of line 2, then of line 1 again were
\* written, a run of several bytes among them
C21_Witness ==
  /\ assembly.calls > 0
  /\ Len(chunkOf(assembly).lines) >= 3
  /\ chunkOf(assembly).lines[Len(chunkOf(assembly).lines)].line
       = chunkOf(assembly).lines[Len(chunkOf(assembly).lines) - 2].line
  /\ \E i \in DOMAIN chunkOf(assembly).lines : chunkOf(assembly).lines[i].run_length > 1
  /\ getLine(chunkOf(assembly), Len(chunkOf(assembly).code) - 1)
       = assembly.written[Len(chunkOf(assembly).code)]

\* the VM about to execute the instruction at an offset of the chunk, with the
\* given values on its stack
vmAt(chunk, offset, values) ==
  [ stack |-> values, stderr |-> << >>, globals |-> << >>,
    frames |-> << [ function |-> chunk, ip |-> offset, slots |-> 0 ] >> ]
ipAfter(chunk, offset, values) == run(vmAt(chunk, offset, values), 0).vm.frames[1].ip

\* C22: writeConstant writes OP_CONSTANT and the index as one byte for the
\* indices 0 .. 255, OP_CONSTANT_LONG and the index as three bytes, highest
\* first, for the indices from 256 on, and run, decoding the instruction,
\* pushes the constant stored at that index and goes on behind the operand
C22_ConstantRoundTrip ==
  \A i \in DOMAIN assembly.stored :
    \A s \in { assembly.stored[i] } :
    \A code \in { chunkOf(assembly).code } :
      /\ IF s.index < 256
         THEN /\ code[s.offset + 1] = "OP_CONSTANT"
              /\ code[s.offset + 2] = s.index
         ELSE /\ code[s.offset + 1] = "OP_CONSTANT_LONG"
              /\ code[s.offset + 2] * 65536 + code[s.offset + 3] * 256 + code[s.offset + 4]
                   = s.index
              /\ \A b \in 2..4 : code[s.offset + b] \in 0..255
      /\ chunkOf(assembly).constants[s.index + 1] = s.value
      /\ run(vmAt(chunkOf(assembly), s.offset, << >>), 0).vm.stack = << s.value >>
      /\ ipAfter(chunkOf(assembly), s.offset, << >>)
           = s.offset + (IF s.index < 256 THEN 2 ELSE 4)

\* C22 witness: the constants of index 255, 256 and 257 were written, the
\* last of them a value of its own, and run pushes it
C22_Witness ==
  /\ \A index \in { 255, 256, 257 } :
       \E i \in DOMAIN assembly.stored : assembly.stored[i].index = index
  /\ \E i \in DOMAIN assembly.stored :
       /\ assembly.stored[i].index = 257
       /\ assembly.stored[i].value = BOOL_VAL(TRUE)
       /\ run(vmAt(chunkOf(assembly), assembly.stored[i].offset, << >>), 0).vm.stack
            = << BOOL_VAL(TRUE) >>

\* whether the jump instruction jumps with this value on top of the stack
taken(instruction, top) ==
  CASE instruction = "OP_JUMP" -> TRUE
    [] instruction = "OP_JUMP_IF_FALSE" -> isFalsey(top)
    [] instruction = "OP_JUMP_IF_TRUE" -> ~isFalsey(top)

\* C23: a jump written by emitJump and patched by patchJump, when run takes
\* it, sets ip to the offset that was the end of the chunk at the patch, and
\* OP_LOOP written by emitLoop sets ip to loopStart; a distance above 65535 is
\* reported as an error, so that compile returns no function
C23_JumpsLand ==
  /\ \A i \in DOMAIN assembly.jumps :
       \A j \in { assembly.jumps[i] } :
         j.target # -1 =>
           IF j.target - j.offset - 2 > UINT16_MAX THEN assembly.p.hadError
           ELSE \A top \in { BOOL_VAL(TRUE), BOOL_VAL(FALSE), NilValue, NUMBER_VAL(0) } :
                  ipAfter(chunkOf(assembly), j.offset - 1, << top >>)
                    = IF taken(chunkOf(assembly).code[j.offset], top) THEN j.target
                      ELSE j.offset + 2
  /\ \A i \in DOMAIN assembly.loops :
       \A l \in { assembly.loops[i] } :
         IF l.offset + 1 - l.loopStart + 2 > UINT16_MAX THEN assembly.p.hadError
         ELSE ipAfter(chunkOf(assembly), l.offset, << >>) = l.loopStart

\* C23 witness: a jump over 65535 bytes was patched without an error, and run
\* lands at its target
C23_Witness ==
  /\ ~assembly.p.hadError
  /\ \E i \in DOMAIN assembly.jumps :
       /\ assembly.jumps[i].target - assembly.jumps[i].offset - 2 = UINT16_MAX
       /\ ipAfter(chunkOf(assembly), assembly.jumps[i].offset - 1, << NilValue >>)
            = assembly.jumps[i].target
(***************************************************************************)
(* compile, one declaration at a time.  compiling is the position of the    *)
(* call: "idle" before it, "script" in the loop of compile over the         *)
(* declarations, "block" in the loop of block() of a block statement of     *)
(* the script, "done" after endCompiler.                                    *)
(***************************************************************************)
MaxLocals == 257   \* the most var declarations of a source

\* the tokens var v1; ... var vn;
varDeclarations(n) ==
  [ k \in 1..(3 * n) |->
      IF k % 3 = 1 THEN "var"
      ELSE IF k % 3 = 2 THEN "v" \o ToString((k + 1) \div 3)
      ELSE ";" ]
lastLocal(n) == "v" \o ToString(n)

\* { var v1; ... var vn; vn = v1; print vn; }
BlockOfLocals(n) ==
  << "var", "g", ";", "{" >> \o varDeclarations(n)
    \o << lastLocal(n), "=", "v1", ";", "print", lastLocal(n), ";", "}" >>
\* fun f(a) { var v1; ... var vn; print vn; }
FunctionOfLocals(n) ==
  << "fun", "f", "(", "a", ")", "{" >> \o varDeclarations(n)
    \o << "print", lastLocal(n), ";", "}" >>

LocalsSources ==
  { BlockOfLocals(n) : n \in (MaxLocals - 3)..MaxLocals }
    \cup { FunctionOfLocals(n) : n \in { MaxLocals - 3, MaxLocals - 2 } }

MaxNumbers == 254   \* the most number statements of a source
\* the tokens 7; ... 7; of n expression statements, a constant each
numberStatements(n) == [ k \in 1..(2 * n) |-> IF k % 2 = 1 THEN "7" ELSE ";" ]
\* 7; ... 7; var g = 1; g = 1; print g; fun f() { }
GlobalsAfterNumbers(n) ==
  numberStatements(n)
    \o << "var", "g", "=", "1", ";", "g", "=", "1", ";", "print", "g", ";",
          "fun", "f", "(", ")", "{", "}" >>
ConstantsSources == { GlobalsAfterNumbers(n) : n \in (MaxNumbers - 4)..MaxNumbers }

MaxArguments == 257   \* the most arguments of a call
\* f(1, ..., 1); with n arguments
CallWith(n) ==
  << "f", "(" >> \o [ k \in 1..(2 * n - 1) |-> IF k % 2 = 1 THEN "1" ELSE "," ]
    \o << ")", ";" >>
CallSources == { CallWith(n) : n \in (MaxArguments - 3)..MaxArguments }
\* sources with a syntax error in the first declaration
RecoverySources ==
  { << "var", "1", "2", "3", ";", "print", "4", ";" >>,
    << "var", "1", "+", "print", "5", ";" >>,
    << "print", ";", "print", "6", ";" >>,
    << "var", "1", "2", "while", "(", "false", ")", "print", "7", ";" >>,
    << "var", "1", "2" >>,
    << "var", "1", "switch", "(", "1", ")", "{", "case", "1", ":", "print", "2", ";", "}" >>,
    << "var", "1", "break", ";", "print", "8", ";" >>,
    << "var", "1", "continue", ";", "print", "9", ";" >> }
\* the declaration ahead is an expression statement that starts with a call
callAhead(p) ==
  /\ p.current.type = "TOKEN_IDENTIFIER"
  /\ p.next <= Len(p.source)
  /\ p.source[p.next] = "("

\* compile: initCompiler and the first advance
BeginCompile ==
  /\ compiling = "idle"
  /\ line <= Len(lines)
  /\ parser' = beginCompile(lines[line], parser)
  /\ compiling' = "script"
  /\ UNCHANGED << vm, lines, line, output, interpreted, heapVars, storageVars >>

\* a turn of the loop of compile: a declaration that is not a block statement
ScriptDeclaration ==
  /\ compiling = "script"
  /\ ~check(parser, "TOKEN_EOF") /\ ~check(parser, "TOKEN_LEFT_BRACE")
  /\ ~check(parser, "TOKEN_FUN") /\ ~callAhead(parser)
  /\ parser' = declaration(parser)
  /\ UNCHANGED << vm, lines, line, output, interpreted, compiling, heapVars, storageVars >>

\* a turn of the loop of compile on a block statement, up to the loop of
\* block(): declaration, statement, match(TOKEN_LEFT_BRACE), beginScope
OpenBlock ==
  /\ compiling = "script"
  /\ check(parser, "TOKEN_LEFT_BRACE")
  /\ parser' = beginScope(match(parser, "TOKEN_LEFT_BRACE"))
  /\ compiling' = "block"
  /\ UNCHANGED << vm, lines, line, output, interpreted, heapVars, storageVars >>

\* a turn of the loop of compile on a function declaration, up to the loop
\* of block(): funDeclaration, function
OpenFunction ==
  /\ compiling = "script"
  /\ check(parser, "TOKEN_FUN")
  /\ \E global \in { parseVariable(match(parser, "TOKEN_FUN"),
                                    "Expect function name.") } :
       parser' = [ functionHead(markInitialized(global), "TYPE_FUNCTION")
                   EXCEPT !.global = global.ret ]
  /\ compiling' = "function"
  /\ UNCHANGED << vm, lines, line, output, interpreted, heapVars, storageVars >>

\* a turn of the loop of block()
BlockDeclaration ==
  /\ compiling \in { "block", "function" }
  /\ ~check(parser, "TOKEN_RIGHT_BRACE") /\ ~check(parser, "TOKEN_EOF")
  /\ parser' = declaration(parser)
  /\ UNCHANGED << vm, lines, line, output, interpreted, compiling, heapVars, storageVars >>

\* the end of block(), endScope, and the end of the declaration that the
\* block statement is
CloseBlock ==
  /\ compiling = "block"
  /\ check(parser, "TOKEN_RIGHT_BRACE") \/ check(parser, "TOKEN_EOF")
  /\ \E closed \in { endScope(consume(parser, "TOKEN_RIGHT_BRACE",
                                      "Expect '}' after block.")) } :
       parser' = IF closed.panicMode THEN synchronize(closed) ELSE closed
  /\ compiling' = "script"
  /\ UNCHANGED << vm, lines, line, output, interpreted, heapVars, storageVars >>

\* the end of block(), endCompiler, OP_CLOSURE and defineVariable with the
\* constant of the name, which is the first of the script, and the end of the
\* declaration
CloseFunction ==
  /\ compiling = "function"
  /\ check(parser, "TOKEN_RIGHT_BRACE") \/ check(parser, "TOKEN_EOF")
  /\ \E closed \in { defineVariable(
                        functionEnd(consume(parser, "TOKEN_RIGHT_BRACE",
                                            "Expect '}' after block.")),
                        parser.global) } :
       parser' = IF closed.panicMode THEN synchronize(closed) ELSE closed
  /\ compiling' = "script"
  /\ UNCHANGED << vm, lines, line, output, interpreted, heapVars, storageVars >>

\* a turn of the loop of compile on a call statement, up to the loop of
\* argumentList: declaration, statement, expressionStatement, expression,
\* parsePrecedence with the prefix rule of the callee, the first turn of its
\* infix loop, call, and argCount = 0
OpenCall ==
  /\ compiling = "script"
  /\ callAhead(parser)
  /\ \E callee \in { advance(variable(advance(parser), TRUE)) } :
       /\ parser' = [ callee EXCEPT !.argCount = 0 ]
       /\ compiling' = IF check(callee, "TOKEN_RIGHT_PAREN") THEN "called"
                       ELSE "arguments"
  /\ UNCHANGED << vm, lines, line, output, interpreted, heapVars, storageVars >>

\* a turn of the do-while loop of argumentList; argCount is a uint8_t
Argument ==
  /\ compiling = "arguments"
  /\ \E more \in { match(expression(parser), "TOKEN_COMMA") } :
       /\ parser' = [ more EXCEPT !.argCount = (@ + 1) % 256 ]
       /\ compiling' = IF more.ret THEN "arguments" ELSE "called"
  /\ UNCHANGED << vm, lines, line, output, interpreted, heapVars, storageVars >>

\* the end of argumentList and of call, and what is left of parsePrecedence,
\* expressionStatement and declaration
CloseCall ==
  /\ compiling = "called"
  /\ \E called \in { emitBytes(consume(parser, "TOKEN_RIGHT_PAREN",
                                        "Expect ')' after arguments."),
                                "OP_CALL", parser.argCount) } :
     \E assigned \in { match(infixLoop(called, PREC("PREC_ASSIGNMENT"), TRUE),
                              "TOKEN_EQUAL") } :
     \E stated \in { emitByte(consume(IF assigned.ret
                                        THEN error(assigned, "Invalid assignment target.")
                                        ELSE assigned,
                                      "TOKEN_SEMICOLON", "Expect ';' after expression."),
                              "OP_POP") } :
       parser' = IF stated.panicMode THEN synchronize(stated) ELSE stated
  /\ compiling' = "script"
  /\ UNCHANGED << vm, lines, line, output, interpreted, heapVars, storageVars >>

\* match(TOKEN_EOF) ends the loop of compile: endCompiler
EndCompile ==
  /\ compiling = "script"
  /\ check(parser, "TOKEN_EOF")
  /\ parser' = endCompiler(match(parser, "TOKEN_EOF"))
  /\ compiling' = "done"
  /\ UNCHANGED << vm, lines, line, output, interpreted, heapVars, storageVars >>

InitCompile ==
  /\ InitHeap /\ program = << >> /\ ip = 1 /\ NoStorage
  /\ vm = initVM
  /\ \E source \in LocalsSources \cup ConstantsSources \cup CallSources
                     \cup RecoverySources : lines = << source >>
  /\ line = 1
  /\ output = << >>
  /\ interpreted = << >>
  /\ parser = initParser
  /\ compiling = "idle"

NextCompile ==
  \/ BeginCompile \/ ScriptDeclaration \/ OpenBlock \/ BlockDeclaration
  \/ CloseBlock \/ OpenFunction \/ CloseFunction \/ OpenCall \/ Argument
  \/ CloseCall \/ EndCompile

SpecCompile == InitCompile /\ [][NextCompile]_vars

\* the bytes that follow an opcode as its operands, as run reads them
operands(instruction) ==
  CASE instruction \in { "OP_CONSTANT", "OP_GET_LOCAL", "OP_SET_LOCAL", "OP_GET_GLOBAL",
                         "OP_SET_GLOBAL", "OP_DEFINE_GLOBAL", "OP_CALL", "OP_CLOSURE" } -> 1
    [] instruction \in { "OP_JUMP", "OP_JUMP_IF_FALSE", "OP_JUMP_IF_TRUE", "OP_LOOP" } -> 2
    [] instruction = "OP_CONSTANT_LONG" -> 3
    [] OTHER -> 0

\* the offsets of the instructions of a chunk, from an offset on
RECURSIVE instructionsFrom(_, _, _)
instructionsFrom(code, offset, found) ==
  IF offset >= Len(code) THEN found
  ELSE Bind([ more \in { found \cup { offset } } |->
         instructionsFrom(code, offset + 1 + operands(code[offset + 1]), more) ])
instructions(code) == instructionsFrom(code, 0, { })

\* the functions among the constants of a function, and that function
RECURSIVE functionsOf(_)
functionsOf(function) ==
  { function } \cup
    UNION { functionsOf(function.constants[i].as) :
              i \in { c \in DOMAIN function.constants :
                        /\ function.constants[c].type = "VAL_OBJ"
                        /\ function.constants[c].as.type = "OBJ_FUNCTION" } }

\* the Compilers of the compile in progress, and the functions compiled
\* before as the constants of their chunks
chunksOf(p) ==
  UNION { functionsOf(p.compilers[i].function) : i \in DOMAIN p.compilers }

\* the locals and parameters a source of LocalsSources declares in its
\* function: every var of the function body and its parameter, every var of
\* the block but the global g
localsDeclared(source) ==
  IF source[1] = "fun"
  THEN Cardinality({ k \in DOMAIN source : source[k] = "var" }) + 1
  ELSE Cardinality({ k \in DOMAIN source : source[k] = "var" }) - 1
tooManyLocals(p) ==
  \E e \in DOMAIN p.errors :
    p.errors[e].message = "Too many local variables in function."
\* a statement of three tokens that starts with this one was compiled last
\* in the block
statementOf(first) ==
  /\ compiling \in { "block", "function" }
  /\ parser.next > 4
  /\ parser.source[parser.next - 4] = first
\* the byte of the current chunk that is the n-th from the end
byteFromEnd(p, n) == currentChunk(p).code[Len(currentChunk(p).code) - n + 1]

\* C24: in every Compiler of a compile in progress there are at most 256
\* locals, slot 0 included; a compile whose function declares 255 locals
\* besides slot 0 reports nothing, one that declares more reports "Too many
\* local variables in function."; and without a report the operand of
\* OP_GET_LOCAL and OP_SET_LOCAL is the slot of the local that is named, 255
\* for the last of 255 locals
C24_LocalsFitOneByte ==
  /\ \A i \in DOMAIN parser.compilers : Len(parser.compilers[i].locals) <= UINT8_COUNT
  /\ compiling = "done" =>
       (tooManyLocals(parser) <=> localsDeclared(parser.source) + 1 > UINT8_COUNT)
  /\ statementOf("print") /\ ~parser.hadError =>
       /\ byteFromEnd(parser, 3) = "OP_GET_LOCAL"
       /\ byteFromEnd(parser, 2) = localsDeclared(parser.source)
       /\ byteFromEnd(parser, 2) = Len(currentOf(parser).locals) - 1
       /\ byteFromEnd(parser, 2) < UINT8_COUNT
  /\ statementOf("=") /\ ~parser.hadError =>
       /\ byteFromEnd(parser, 5) = "OP_GET_LOCAL"
       /\ byteFromEnd(parser, 4) = 1
       /\ byteFromEnd(parser, 3) = "OP_SET_LOCAL"
       /\ byteFromEnd(parser, 2) = localsDeclared(parser.source)

\* C24 witness: with 256 locals in the Compiler one more was declared: the
\* error is reported and the locals are still 256
C24_Witness ==
  /\ compiling \in { "block", "function" }
  /\ Len(currentOf(parser).locals) = UINT8_COUNT
  /\ tooManyLocals(parser)
  /\ parser.previous.lexeme = ";"

(***************************************************************************)
(* Sessions of if, while, for, break, continue and switch.                  *)
(***************************************************************************)
\* if (true) print 1; else print 2; switch (1) { case 2: print "a"; }
IfThenSwitch ==
  << "if", "(", "true", ")", "print", "1", ";", "else", "print", "2", ";",
     "switch", "(", "1", ")", "{", "case", "2", ":", "print", "\"a\"", ";", "}" >>
\* switch (nil) { case true: fallthrough }
TrailingFallthrough ==
  << "switch", "(", "nil", ")", "{", "case", "true", ":", "fallthrough", "}" >>
\* while (true) { break; } print "a"; while (true) { break; } print "b";
LoopAfterLoop ==
  << "while", "(", "true", ")", "{", "break", ";", "}", "print", "\"a\"", ";",
     "while", "(", "true", ")", "{", "break", ";", "}", "print", "\"b\"", ";" >>
\* var n = 0; while (n < 2) { n = n + 1; if (n == 1) break; while (true) { break; } }
LoopInLoop ==
  << "var", "n", "=", "0", ";", "while", "(", "n", "<", "2", ")", "{",
     "n", "=", "n", "+", "1", ";", "if", "(", "n", "==", "1", ")", "break", ";",
     "while", "(", "true", ")", "{", "break", ";", "}", "}" >>
\* var n = 0; while (n < 3) { n = n + 1; if (n == 2) break; } print n;
BreakOnce ==
  << "var", "n", "=", "0", ";", "while", "(", "n", "<", "3", ")", "{",
     "n", "=", "n", "+", "1", ";", "if", "(", "n", "==", "2", ")", "break", ";", "}",
     "print", "n", ";" >>
\* { var x = 0; while (true) { var a = 1; break; } var y = 2; print y; }
BreakFromBlock ==
  << "{", "var", "x", "=", "0", ";", "while", "(", "true", ")", "{",
     "var", "a", "=", "1", ";", "break", ";", "}",
     "var", "y", "=", "2", ";", "print", "y", ";", "}" >>
\* for (var i = 0; i < 2; i = i + 1) { var a = i; continue; }
ContinueFromBlock ==
  << "for", "(", "var", "i", "=", "0", ";", "i", "<", "2", ";", "i", "=", "i", "+", "1",
     ")", "{", "var", "a", "=", "i", ";", "continue", ";", "}" >>
\* var n = 0; while (n < 1) { n = n + 1; switch (n) { case 1: break; } }
BreakFromSwitch ==
  << "var", "n", "=", "0", ";", "while", "(", "n", "<", "1", ")", "{",
     "n", "=", "n", "+", "1", ";",
     "switch", "(", "n", ")", "{", "case", "1", ":", "break", ";", "}", "}" >>
\* for (var i = 0; i < 3; i = i + 1) { if (i == 1) continue; print i; }
ContinueInFor ==
  << "for", "(", "var", "i", "=", "0", ";", "i", "<", "3", ";", "i", "=", "i", "+", "1",
     ")", "{", "if", "(", "i", "==", "1", ")", "continue", ";", "print", "i", ";", "}" >>
\* switch (1) { case 1: print 1;    and no more
OpenCase == << "switch", "(", "1", ")", "{", "case", "1", ":", "print", "1", ";" >>
\* switch (1) { default: print 1;   and no more
OpenDefault == << "switch", "(", "1", ")", "{", "default", ":", "print", "1", ";" >>
\* sources that end in a block, an argument list, an expression
OpenSources ==
  { << "{", "print", "1", ";" >>, << "clock", "(", "1", "," >>, << "print", "1", "+" >>,
    << "while", "(", "true", ")", "{" >>, << "fun", "f", "(", "a" >>,
    << "switch", "(", "1", ")", "{" >>, << "if", "(", "true" >> }

\* switch (s) { case 1: print "one"; case 2: print "two"; default: print "other"; }
\* print "after";  in a block with a local before it and one after it
SwitchOn(selector, cases, withDefault) ==
  << "{", "var", "x", "=", "7", ";", "switch", "(", selector, ")", "{" >>
    \o (IF 1 \in cases THEN << "case", "1", ":", "print", "\"one\"", ";" >> ELSE << >>)
    \o (IF 2 \in cases THEN << "case", "2", ":", "print", "\"two\"", ";" >> ELSE << >>)
    \o (IF 3 \in cases THEN << "case", "1", ":", "print", "\"again\"", ";" >> ELSE << >>)
    \o (IF withDefault THEN << "default", ":", "print", "\"other\"", ";" >> ELSE << >>)
    \o << "}", "var", "y", "=", "8", ";", "print", "x", "+", "y", ";", "}" >>
Switches ==
  { SwitchOn(selector, cases, withDefault) :
      selector \in { "1", "2", "3", "nil" },
      cases \in SUBSET { 1, 2, 3 },
      withDefault \in BOOLEAN }

ControlSessions ==
  { << IfThenSwitch, TrailingFallthrough, IfThenSwitch >>,
    << IfThenSwitch, BreakOnce, IfThenSwitch >>,
    << TrailingFallthrough >>,
    << LoopAfterLoop >>, << LoopInLoop >>, << BreakOnce >>, << BreakFromBlock >>,
    << ContinueFromBlock >>, << BreakFromSwitch >>, << ContinueInFor >>,
    << OpenCase >>, << OpenDefault >> }
    \cup { << source, BreakOnce >> : source \in OpenSources }
    \cup { << source >> : source \in Switches }

InitControl ==
  /\ InitHeap /\ program = << >> /\ ip = 1 /\ NoStorage
  /\ vm = initVM
  /\ lines \in ControlSessions
  /\ line = 1
  /\ output = << >>
  /\ interpreted = << >>
  /\ parser = initParser
  /\ compiling = "idle"

SpecControl == InitControl /\ [][NextLang]_vars

\* interpret has returned from the i-th source
finished(i) == interpreted[i].result \in InterpretResults
\* compile has returned a function for the source interpreted last
compiled ==
  interpreted # << >> /\ ~parser.looping /\ ~parser.hadError
\* the function of that name among those compile made of the source
functionNamed(name) == CHOOSE function \in functionsOf(parser.ret) : function.name = name
\* the operand of the jump whose operand is at the offset
jumpOperand(function, offset) ==
  function.code[offset + 1] * 256 + function.code[offset + 2]
\* the frame run is in
frameOf(v) == v.frames[Len(v.frames)]
\* run is about to execute the instruction at a mark of these kinds
atMark(kinds) ==
  { m \in DOMAIN parser.marks :
      /\ parser.marks[m].at \in kinds
      /\ parser.marks[m].function = frameOf(vm).function.name
      /\ parser.marks[m].offset = frameOf(vm).ip }
running == interpreted # << >> /\ interpreted[Len(interpreted)].result = "NONE"

\* C25: two calls of interpret on the same source with the same globals
\* print the same and return the same, whatever was compiled before them
C25_SameSourceSameOutput ==
  \A i, j \in DOMAIN interpreted :
    /\ interpreted[i].source = interpreted[j].source
    /\ interpreted[i].before.globals = interpreted[j].before.globals
    /\ finished(i) /\ finished(j)
    => /\ interpreted[i].printed = interpreted[j].printed
       /\ interpreted[i].result = interpreted[j].result

\* C26: in the function compile returns, the jump of every break goes to the
\* end of the loop the break is in
C26_BreaksGoToLoopEnd ==
  compiled =>
    \A b \in DOMAIN parser.breaks :
      \E m \in DOMAIN parser.marks :
        /\ parser.marks[m].at = "loopEnd"
        /\ parser.marks[m].function = parser.breaks[b].function
        /\ parser.marks[m].loop = parser.breaks[b].loop
        /\ jumpOperand(functionNamed(parser.breaks[b].function), parser.breaks[b].offset)
             = parser.marks[m].offset - parser.breaks[b].offset - 2

\* C27: whenever run is at the start or at the end of a loop, the stack of
\* the frame holds as many values as the Compiler had locals in scope there
C27_StackHeightAtLoopTargets ==
  running =>
    \A m \in atMark({ "loopStart", "loopEnd" }) :
      Len(vm.stack) - frameOf(vm).slots = parser.marks[m].locals

\* C28: every call of compile returns
C28_CompileReturns ==
  \A i \in DOMAIN interpreted : interpreted[i].result # "COMPILING"

\* what a source of Switches prints in its switch
bodyRun(selector, cases, withDefault) ==
  IF selector = "1" /\ 1 \in cases THEN << OBJ_VAL(ObjString("one")) >>
  ELSE IF selector = "2" /\ 2 \in cases THEN << OBJ_VAL(ObjString("two")) >>
  ELSE IF selector = "1" /\ 3 \in cases THEN << OBJ_VAL(ObjString("again")) >>
  ELSE IF withDefault THEN << OBJ_VAL(ObjString("other")) >>
  ELSE << >>

\* C29: a switch without fallthrough runs the body of the first case that
\* equals the selector, the default body when there is none, and nothing
\* without a default; at its end the stack is as high as at its start, so the
\* local declared after it is read from its slot (x + y is 15)
C29_SwitchRunsOneBody ==
  \A selector \in { "1", "2", "3", "nil" }, cases \in SUBSET { 1, 2, 3 },
     withDefault \in BOOLEAN :
    lines = << SwitchOn(selector, cases, withDefault) >> =>
      /\ interpreted # << >> => ~parser.hadError /\ ~parser.looping
      /\ running =>
           /\ \A m \in atMark({ "switchStart", "switchEnd" }) :
                Len(vm.stack) - frameOf(vm).slots = parser.marks[m].locals
           /\ output \in { << >>, bodyRun(selector, cases, withDefault),
                           bodyRun(selector, cases, withDefault) \o << NUMBER_VAL(15) >> }
      /\ line = 2 =>
           /\ interpreted[1].result = "INTERPRET_OK"
           /\ output = bodyRun(selector, cases, withDefault) \o << NUMBER_VAL(15) >>

\* C29 witness: the selector equals the second of three cases: its body
\* alone ran, and the switch is left with the stack as high as before it
C29_Witness ==
  /\ lines = << SwitchOn("2", { 1, 2, 3 }, TRUE) >>
  /\ running
  /\ atMark({ "switchEnd" }) # { }
  /\ output = << OBJ_VAL(ObjString("two")) >>
  /\ Len(vm.stack) - frameOf(vm).slots = 2

\* C30: in the functions compile returns no jump has the operand 0xffff
C30_NoPlaceholderLeft ==
  compiled =>
    \A function \in functionsOf(parser.ret) :
      \A o \in instructions(function.code) :
        function.code[o + 1] \in { "OP_JUMP", "OP_JUMP_IF_FALSE", "OP_JUMP_IF_TRUE" }
          => jumpOperand(function, o + 1) # UINT16_MAX

\* the tokens of the source in front of the current token
consumed(p) == IF p.current.type = "TOKEN_EOF" THEN Len(p.source) ELSE p.next - 2
\* the statement compiled last by the loop of compile is these tokens
lastStatement(tokens) ==
  /\ compiling = "script"
  /\ consumed(parser) >= Len(tokens)
  /\ SubSeq(parser.source, consumed(parser) - Len(tokens) + 1, consumed(parser)) = tokens
  /\ consumed(parser) > Len(tokens) =>
       parser.source[consumed(parser) - Len(tokens)] \in { ";", "}" }
\* the index addConstant returned for the value added n values before the last
addedFromEnd(p, n) == Len(currentChunk(p).constants) - 1 - n

\* C31: the one-byte operand that names a constant (the name of
\* OP_DEFINE_GLOBAL, OP_GET_GLOBAL and OP_SET_GLOBAL, the function of
\* OP_CLOSURE) is the index at which addConstant added the value, and a chunk
\* that needs an index above 255 for it is rejected with a compile error
C31_ConstantOperandIsIndex ==
  /\ lastStatement(<< "var", "g", "=", "1", ";" >>) =>
       \/ parser.hadError
       \/ /\ byteFromEnd(parser, 2) = "OP_DEFINE_GLOBAL"
          /\ byteFromEnd(parser, 1) = addedFromEnd(parser, 1)
  /\ lastStatement(<< "g", "=", "1", ";" >>) =>
       \/ parser.hadError
       \/ /\ byteFromEnd(parser, 3) = "OP_SET_GLOBAL"
          /\ byteFromEnd(parser, 2) = addedFromEnd(parser, 1)
  /\ lastStatement(<< "print", "g", ";" >>) =>
       \/ parser.hadError
       \/ /\ byteFromEnd(parser, 3) = "OP_GET_GLOBAL"
          /\ byteFromEnd(parser, 2) = addedFromEnd(parser, 0)
  /\ lastStatement(<< "fun", "f", "(", ")", "{", "}" >>) =>
       \/ parser.hadError
       \/ /\ byteFromEnd(parser, 4) = "OP_CLOSURE"
          /\ byteFromEnd(parser, 3) = addedFromEnd(parser, 0)
          /\ byteFromEnd(parser, 2) = "OP_DEFINE_GLOBAL"
          /\ byteFromEnd(parser, 1) = addedFromEnd(parser, 1)

\* the argument expressions of the call of a source of CallSources
argumentsOf(source) == Cardinality({ k \in DOMAIN source : source[k] = "1" })

\* C32: the operand of OP_CALL is the number of argument expressions of the
\* call, at most 255, and a call with more than 255 arguments is a compile
\* error
C32_CallOperandIsArgumentCount ==
  (parser.source \in CallSources /\ lastStatement(parser.source)) =>
    IF argumentsOf(parser.source) > 255 THEN parser.hadError
    ELSE /\ ~parser.hadError
         /\ byteFromEnd(parser, 3) = "OP_CALL"
         /\ byteFromEnd(parser, 2) = argumentsOf(parser.source)

\* the objects the fields of object o refer to: name and constants of a
\* function, function and upvalues of a closure, the closed value of an
\* upvalue, name and methods of a class, class and fields of an instance,
\* receiver and method of a bound method
referencesOf(h, o) ==
  { r \in
      CASE h[o].type = "OBJ_FUNCTION" -> { h[o].name } \cup SeqRange(h[o].constants)
        [] h[o].type = "OBJ_CLOSURE" -> { h[o].function } \cup h[o].upvalues
        [] h[o].type = "OBJ_UPVALUE" -> { h[o].closed }
        [] h[o].type = "OBJ_CLASS" -> { h[o].name } \cup TableRefs(h[o].methods)
        [] h[o].type = "OBJ_INSTANCE" -> { h[o].klass } \cup TableRefs(h[o].fields)
        [] h[o].type = "OBJ_BOUND_METHOD" -> { h[o].receiver, h[o].method }
        [] OTHER -> {}
    : IS_OBJ(r) /\ r \in DOMAIN h }
\* the heap after blackenObject on object o, marked and taken off the gray stack
blackened(h, o) == blackenObject([ h |-> SetMarked(h, o, TRUE), gray |-> << >> ], o).h

\* C33: blackenObject on a marked object of any kind marks every object its
\* fields refer to
C33_BlackenMarksReferences ==
  \A o \in SeqRange(objects) :
    \A r \in referencesOf(heap, o) : blackened(heap, o)[r].isMarked

\* the keywords a declaration or a statement starts with
StartKeywords ==
  { "TOKEN_CLASS", "TOKEN_FUN", "TOKEN_VAR", "TOKEN_FOR", "TOKEN_IF", "TOKEN_WHILE",
    "TOKEN_PRINT", "TOKEN_RETURN", "TOKEN_SWITCH", "TOKEN_BREAK", "TOKEN_CONTINUE" }
\* the place in the source of the token of the first report
reportedAt(p) ==
  CHOOSE k \in DOMAIN p.source :
    /\ p.source[k] = p.errors[1].token.lexeme
    /\ \A j \in 1..(k - 1) : p.source[j] # p.source[k]
\* the current token is the first behind the report that follows a ';' or is
\* a keyword a declaration or statement starts with, or the end of the source
synchronized(p) ==
  /\ ~p.panicMode
  /\ \/ p.current.type = "TOKEN_EOF"
     \/ p.previous.type = "TOKEN_SEMICOLON"
     \/ p.current.type \in StartKeywords
  /\ \A k \in (reportedAt(p) + 1)..consumed(p) :
       /\ tokenType(p.source[k]) \notin StartKeywords
       /\ k < consumed(p) => p.source[k] # ";"

\* C38: a declaration reports one syntax error at most, the first, and the
\* synchronize that follows it clears panic mode and leaves the parser just
\* behind the next ';' or just in front of the next keyword that starts a
\* declaration or statement, or at the end of the source; and hadError, once
\* set, stays set until compile returns
C38_PanicModeAndSynchronize ==
  [][ /\ (parser.source \in RecoverySources /\ compiling = "script"
            /\ compiling' = "script" /\ parser.errors = << >> /\ parser'.errors # << >>)
         => Len(parser'.errors) = 1 /\ synchronized(parser')
      /\ (parser.hadError /\ compiling # "idle") => parser'.hadError ]_vars

(***************************************************************************)
(* The accounting of the allocator (memory.c, object.c).  memory holds      *)
(* vm.bytesAllocated and vm.nextGC, the blocks malloc has handed out with    *)
(* their sizes, and vm.objects; the objects are string, instance, class,     *)
(* bound method and closure, their tables are empty, and what the mutator    *)
(* still refers to is the flag rooted of an object.  calls is the record of  *)
(* the reallocate calls of the last operation.                               *)
(***************************************************************************)
MaxAllocations == 4   \* the most operations that allocate
\* the lengths of the strings
Lengths == { 2, 1024 * 1024 - 1, 1024 * 1024 }
GC_HEAP_GROW_FACTOR == 2
InitialNextGC == 1024 * 1024
\* sizeof(type) of a 64-bit build; ObjString without its characters
sizeofObj(type) ==
  CASE type = "OBJ_STRING" -> 24
    [] type = "OBJ_INSTANCE" -> 40
    [] type = "OBJ_CLASS" -> 48
    [] type = "OBJ_BOUND_METHOD" -> 40
    [] type = "OBJ_CLOSURE" -> 40
ObjectTypes == { "OBJ_INSTANCE", "OBJ_CLASS", "OBJ_BOUND_METHOD", "OBJ_CLOSURE" }

initMemory ==
  [ bytesAllocated |-> 0, nextGC |-> InitialNextGC, blocks |-> << >>,
    objects |-> << >>, nextBlock |-> 1, calls |-> << >>, ret |-> NULL,
    allocations |-> 0, unlinked |-> {} ]

\* free(pointer) and realloc(pointer, newSize) on the blocks
freeBlock(blocks, pointer) ==
  [ b \in (DOMAIN blocks) \ { pointer } |-> blocks[b] ]
reallocBlock(blocks, pointer, newSize) ==
  [ b \in (DOMAIN blocks) \cup { pointer } |-> IF b = pointer THEN newSize ELSE blocks[b] ]

\* FREE(type, object) and the other calls of freeObject for an object
RECURSIVE sweepFrom(_, _)
RECURSIVE reallocateBytes(_, _, _, _)

freeObjectBytes(mem, object) ==
  CASE object.type = "OBJ_CLOSURE" ->
         reallocateBytes(reallocateBytes(mem, NULL, 0, 0),
                         object.block, sizeofObj("OBJ_CLOSURE"), 0)
    [] object.type = "OBJ_CLASS" -> reallocateBytes(mem, NULL, 0, 0)
    [] object.type = "OBJ_INSTANCE" ->
         reallocateBytes(reallocateBytes(mem, NULL, 0, 0),
                         object.block, sizeofObj("OBJ_INSTANCE"), 0)
    [] object.type = "OBJ_STRING" ->
         reallocateBytes(mem, object.block, sizeofObj("OBJ_STRING"), 0)
    [] OTHER -> mem

\* sweep from the i-th object of vm.objects on: a marked object stays, and
\* loses its mark unless it is a string; an unmarked one is unlinked and
\* handed to freeObject
sweepFrom(mem, i) ==
  IF i > Len(mem.objects) THEN mem
  ELSE IF mem.objects[i].isMarked
  THEN sweepFrom([ mem EXCEPT !.objects[i].isMarked = mem.objects[i].type = "OBJ_STRING" ],
                 i + 1)
  ELSE sweepFrom(freeObjectBytes(
                   [ mem EXCEPT !.objects = SubSeq(@, 1, i - 1)
                                              \o SubSeq(@, i + 1, Len(@)),
                                !.unlinked = @ \cup { mem.objects[i].block } ],
                   mem.objects[i]), i)

\* markRoots and traceReferences mark what the mutator refers to
markRooted(mem) ==
  [ mem EXCEPT !.objects = [ i \in DOMAIN @ |->
                               [ @[i] EXCEPT !.isMarked = @ \/ mem.objects[i].rooted ] ] ]

collectGarbageBytes(mem) ==
  Bind([ swept \in { sweepFrom(markRooted(mem), 1) } |->
    [ swept EXCEPT !.nextGC = swept.bytesAllocated * GC_HEAP_GROW_FACTOR ] ])

\* C34 mutant: reallocate that collects as soon as bytesAllocated reaches nextGC
reallocateAtNextGC(mem, pointer, oldSize, newSize) ==
  Bind([ counted \in { [ mem EXCEPT !.bytesAllocated = @ + newSize - oldSize ] } |->
  Bind([ collects \in { newSize > oldSize /\ counted.bytesAllocated >= counted.nextGC } |->
  Bind([ collected \in { IF collects THEN collectGarbageBytes(counted) ELSE counted } |->
    [ collected EXCEPT
        !.blocks = IF newSize = 0 THEN freeBlock(@, pointer)
                   ELSE reallocBlock(@, IF pointer = NULL THEN mem.nextBlock ELSE pointer,
                                     newSize),
        !.nextBlock = IF newSize # 0 /\ pointer = NULL THEN @ + 1 ELSE @,
        !.ret = IF newSize = 0 THEN NULL
                ELSE IF pointer = NULL THEN mem.nextBlock ELSE pointer,
        !.calls = Append(@, [ oldSize |-> oldSize, newSize |-> newSize,
                              before |-> mem.bytesAllocated,
                              counted |-> counted.bytesAllocated,
                              nextGC |-> mem.nextGC, collected |-> collects,
                              swept |-> collected.bytesAllocated,
                              next |-> collected.nextGC ]) ] ]) ]) ])

reallocateBytes(mem, pointer, oldSize, newSize) ==
  Bind([ counted \in { [ mem EXCEPT !.bytesAllocated = @ + newSize - oldSize ] } |->
  Bind([ collects \in { newSize > oldSize /\ counted.bytesAllocated > counted.nextGC } |->
  Bind([ collected \in { IF collects THEN collectGarbageBytes(counted) ELSE counted } |->
    [ collected EXCEPT
        !.blocks = IF newSize = 0 THEN freeBlock(@, pointer)
                   ELSE reallocBlock(@, IF pointer = NULL THEN mem.nextBlock ELSE pointer,
                                     newSize),
        !.nextBlock = IF newSize # 0 /\ pointer = NULL THEN @ + 1 ELSE @,
        !.ret = IF newSize = 0 THEN NULL
                ELSE IF pointer = NULL THEN mem.nextBlock ELSE pointer,
        !.calls = Append(@, [ oldSize |-> oldSize, newSize |-> newSize,
                              before |-> mem.bytesAllocated,
                              counted |-> counted.bytesAllocated,
                              nextGC |-> mem.nextGC, collected |-> collects,
                              swept |-> collected.bytesAllocated,
                              next |-> collected.nextGC ]) ] ]) ]) ])

\* allocateObject: the block of the object, linked in front of vm.objects
allocateObjectBytes(mem, size, type) ==
  Bind([ object \in { reallocateBytes(mem, NULL, 0, size) } |->
    [ object EXCEPT !.objects = << [ block |-> object.ret, type |-> type,
                                     isMarked |-> FALSE, rooted |-> TRUE ] >> \o @ ] ])

\* allocateString: the ObjString with its characters behind it; the buffer
\* chars it copies them from stays allocated
allocateStringBytes(mem, length) ==
  allocateObjectBytes(mem, sizeofObj("OBJ_STRING") + length + 1, "OBJ_STRING")

started(mem) == [ mem EXCEPT !.calls = << >>, !.allocations = @ + 1 ]

\* copyString of characters that are not interned (for interned ones it
\* returns the string and allocates nothing)
CopyString ==
  /\ memory.allocations < MaxAllocations
  /\ \E length \in Lengths :
       memory' = allocateStringBytes(
                   reallocateBytes(started(memory), NULL, 0, length + 1), length)
  /\ UNCHANGED << heapVars, langVars, machine, hashTable, assembly >>

\* concatenate: ALLOCATE(char, length + 1) and takeString, which frees the
\* buffer when the characters are interned
Concatenate ==
  /\ memory.allocations < MaxAllocations
  /\ \E length \in Lengths, interned \in BOOLEAN :
       \E chars \in { reallocateBytes(started(memory), NULL, 0, length + 1) } :
         memory' = IF interned THEN reallocateBytes(chars, chars.ret, length + 1, 0)
                   ELSE allocateStringBytes(chars, length)
  /\ UNCHANGED << heapVars, langVars, machine, hashTable, assembly >>

\* newInstance, newClass, newBoundMethod, and newClosure of a function
\* without upvalues
NewObject ==
  /\ memory.allocations < MaxAllocations
  /\ \E type \in ObjectTypes :
       memory' = allocateObjectBytes(
                   IF type = "OBJ_CLOSURE"
                   THEN reallocateBytes(started(memory), NULL, 0, 0)
                   ELSE started(memory),
                   sizeofObj(type), type)
  /\ UNCHANGED << heapVars, langVars, machine, hashTable, assembly >>

\* the mutator drops its last reference to an object
Drop ==
  /\ \E i \in DOMAIN memory.objects :
       /\ memory.objects[i].rooted
       /\ memory' = [ memory EXCEPT !.objects[i].rooted = FALSE, !.calls = << >> ]
  /\ UNCHANGED << heapVars, langVars, machine, hashTable, assembly >>

InitMemory ==
  /\ InitHeap /\ NoLines /\ program = << >> /\ ip = 1
  /\ machine = << >> /\ hashTable = << >> /\ assembly = << >>
  /\ memory = initMemory

NextMemory == CopyString \/ Concatenate \/ NewObject \/ Drop

SpecMemory == InitMemory /\ [][NextMemory]_vars

\* C34: every reallocate call adds newSize - oldSize to bytesAllocated; it
\* runs a collection exactly when the request grows the block and leaves
\* bytesAllocated above nextGC, never when it shrinks or frees; and after a
\* collection nextGC is twice the bytesAllocated the sweep left
C34_ReallocateCountsAndCollects ==
  \A c \in DOMAIN memory.calls :
    /\ memory.calls[c].counted
         = memory.calls[c].before + memory.calls[c].newSize - memory.calls[c].oldSize
    /\ memory.calls[c].collected
         <=> (memory.calls[c].newSize > memory.calls[c].oldSize
                /\ memory.calls[c].counted > memory.calls[c].nextGC)
    /\ memory.calls[c].newSize <= memory.calls[c].oldSize => ~memory.calls[c].collected
    /\ memory.calls[c].collected =>
         memory.calls[c].next = memory.calls[c].swept * 2
\* a growing request whose collection freed an object, and a free
C34_Witness ==
  /\ \E c \in DOMAIN memory.calls :
       /\ memory.calls[c].newSize > memory.calls[c].oldSize
       /\ memory.calls[c].collected
       /\ memory.calls[c].swept < memory.calls[c].counted
  /\ \E c \in DOMAIN memory.calls :
       memory.calls[c].newSize = 0 /\ memory.calls[c].oldSize > 0

\* the total size of the blocks that are allocated
RECURSIVE totalSize(_, _)
totalSize(blocks, ids) ==
  IF ids = {} THEN 0
  ELSE Bind([ b \in { CHOOSE b \in ids : TRUE } |->
         blocks[b] + totalSize(blocks, ids \ { b }) ])

\* C35: vm.bytesAllocated is the total size of the blocks allocated through
\* reallocate and not freed, and the block of every object that sweep
\* unlinked is freed
C35_BytesAllocatedIsLiveTotal ==
  /\ memory.bytesAllocated = totalSize(memory.blocks, DOMAIN memory.blocks)
  /\ memory.unlinked \cap DOMAIN memory.blocks = {}

(***************************************************************************)
(* Sessions of and, or and the ternary operator.  Each source is a block    *)
(* with the local x before the expression and the local y behind it, so     *)
(* that a value the expression leaves on the stack, or takes from it,       *)
(* shows in what print y reads.                                             *)
(***************************************************************************)
Operands == { "true", "false", "nil", "0", "1", "\"s\"" }
\* the value of the literal
literalValue(lexeme) ==
  CASE lexeme = "true" -> BOOL_VAL(TRUE)
    [] lexeme = "false" -> BOOL_VAL(FALSE)
    [] lexeme = "nil" -> NilValue
    [] lexeme = "0" -> NUMBER_VAL(0)
    [] lexeme = "1" -> NUMBER_VAL(1)
    [] lexeme = "\"s\"" -> OBJ_VAL(ObjString("s"))
\* nil and false are falsey, every other value is truthy
truthyLiteral(lexeme) == lexeme \notin { "nil", "false" }

\* { var x = 5; var r = a op (x = 7); var y = 10; print r; print x; print y; }
LogicOf(a, op) ==
  << "{", "var", "x", "=", "5", ";",
     "var", "r", "=", a, op, "(", "x", "=", "7", ")", ";",
     "var", "y", "=", "10", ";",
     "print", "r", ";", "print", "x", ";", "print", "y", ";", "}" >>
\* { var x = 5; var z = 6; var r = c ? (x = 1) : (z = 2); var y = 10;
\*   print r; print x; print z; print y; }
TernaryOf(c) ==
  << "{", "var", "x", "=", "5", ";", "var", "z", "=", "6", ";",
     "var", "r", "=", c, "?", "(", "x", "=", "1", ")", ":", "(", "z", "=", "2", ")", ";",
     "var", "y", "=", "10", ";",
     "print", "r", ";", "print", "x", ";", "print", "z", ";", "print", "y", ";", "}" >>
\* { var x = 5; var r = c ? x = 1 : 2; print r; print x; }
AssignInThen(c) ==
  << "{", "var", "x", "=", "5", ";",
     "var", "r", "=", c, "?", "x", "=", "1", ":", "2", ";",
     "print", "r", ";", "print", "x", ";", "}" >>
\* { var x = 5; var r = c ? 1 : x = 2; print r; print x; }
AssignInElse(c) ==
  << "{", "var", "x", "=", "5", ";",
     "var", "r", "=", c, "?", "1", ":", "x", "=", "2", ";",
     "print", "r", ";", "print", "x", ";", "}" >>
\* { var r = c ? 1 : d ? 2 : 3; var y = 10; print r; print y; }
TernaryChain(c, d) ==
  << "{", "var", "r", "=", c, "?", "1", ":", d, "?", "2", ":", "3", ";",
     "var", "y", "=", "10", ";", "print", "r", ";", "print", "y", ";", "}" >>

ExpressionSessions ==
  { << LogicOf(a, op) >> : a \in Operands, op \in { "and", "or" } }
    \cup { << TernaryOf(c) >> : c \in Operands }
    \cup { << AssignInThen(c) >> : c \in Operands }
    \cup { << AssignInElse(c) >> : c \in Operands }
    \cup { << TernaryChain(c, d) >> : c \in Operands, d \in Operands }

InitExpression ==
  /\ InitHeap /\ program = << >> /\ ip = 1 /\ NoStorage
  /\ vm = initVM
  /\ lines \in ExpressionSessions
  /\ line = 1
  /\ output = << >>
  /\ interpreted = << >>
  /\ parser = initParser
  /\ compiling = "idle"

SpecExpression == InitExpression /\ [][NextLang]_vars

\* the record of the interpret call that is running or was made last
lastCall == interpreted[Len(interpreted)]
\* the instruction executed last was a conditional jump
jumpedOn ==
  /\ interpreted # << >>
  /\ lastCall.executed > 0
  /\ lastCall.instruction \in { "OP_JUMP_IF_FALSE", "OP_JUMP_IF_TRUE" }

\* C36: a and b evaluates b only when a is truthy, a or b only when a is
\* falsey; the expression leaves exactly one value on the stack, that of b
\* when b was evaluated and that of a otherwise; and OP_JUMP_IF_FALSE and
\* OP_JUMP_IF_TRUE leave the stack as it is
C36_ShortCircuit ==
  \A a \in Operands, op \in { "and", "or" } :
    lines = << LogicOf(a, op) >> =>
      /\ interpreted # << >> => ~parser.hadError
      /\ jumpedOn => lastCall.after.stack = lastCall.at.stack
      /\ line = 2 =>
           /\ lastCall.result = "INTERPRET_OK"
           /\ output = IF truthyLiteral(a) <=> op = "and"
                       THEN << NUMBER_VAL(7), NUMBER_VAL(7), NUMBER_VAL(10) >>
                       ELSE << literalValue(a), NUMBER_VAL(5), NUMBER_VAL(10) >>
\* nil or (x = 7) has run: the right operand was evaluated and its value is
\* the one left
C36_Witness ==
  /\ lines = << LogicOf("nil", "or") >>
  /\ line = 2
  /\ output = << NUMBER_VAL(7), NUMBER_VAL(7), NUMBER_VAL(10) >>

\* C37: in c ? t : e the then-branch is parsed at assignment precedence, so
\* an assignment is accepted as t, and the else-branch at ternary precedence,
\* so a ternary is accepted as e and an assignment is not; exactly one of t
\* and e is evaluated and its value takes the place of c on the stack
C37_TernaryBranches ==
  \A c \in Operands :
    /\ lines = << TernaryOf(c) >> =>
         /\ interpreted # << >> => ~parser.hadError
         /\ line = 2 =>
              output = IF truthyLiteral(c)
                       THEN << NUMBER_VAL(1), NUMBER_VAL(1), NUMBER_VAL(6), NUMBER_VAL(10) >>
                       ELSE << NUMBER_VAL(2), NUMBER_VAL(5), NUMBER_VAL(2), NUMBER_VAL(10) >>
    /\ \A d \in Operands :
         lines = << TernaryChain(c, d) >> =>
           /\ interpreted # << >> => ~parser.hadError
           /\ line = 2 =>
                output = << NUMBER_VAL(IF truthyLiteral(c) THEN 1
                                       ELSE IF truthyLiteral(d) THEN 2 ELSE 3),
                            NUMBER_VAL(10) >>
    /\ lines = << AssignInThen(c) >> =>
         /\ interpreted # << >> => ~parser.hadError
         /\ line = 2 =>
              output = IF truthyLiteral(c) THEN << NUMBER_VAL(1), NUMBER_VAL(1) >>
                       ELSE << NUMBER_VAL(2), NUMBER_VAL(5) >>
    /\ lines = << AssignInElse(c) >> =>
         (interpreted # << >> => parser.hadError)

(***************************************************************************)
(* OP_MODULO (vm.c).  In this specification the number of a value is given  *)
(* in quarters: NUMBER_VAL(n) is the double n / 4, so that 0.25, 0.5 and     *)
(* 0.75 behind the point are operands like the whole numbers.               *)
(***************************************************************************)
Quarters == 2 * 2
MaxOperand == 10   \* the operands are the quarters from -MaxOperand to MaxOperand
\* the conversion of a quotient to int: the digits behind the point are dropped
truncated(n, d) ==
  IF n >= 0 THEN n \div d ELSE 0 - ((0 - n) \div d)
\* a % b of two ints, b # 0: the remainder has the sign of a
remainder(a, b) ==
  IF b > 0 THEN a - b * truncated(a, b) ELSE a - (0 - b) * truncated(a, 0 - b)

\* roundDouble: (int)(value + 0.5)
roundDouble(value) == truncated(value + Quarters \div 2, Quarters)

\* what a % b leaves when b is 0, which C does not define: the process is
\* stopped by a signal, or any int is pushed
Remainders == (0 - 1)..1
\* BINARY_INT_OP(%): the outcomes of the instruction on the VM
binaryIntOp(v) ==
  IF ~IS_NUMBER(v.stack[Len(v.stack)]) \/ ~IS_NUMBER(v.stack[Len(v.stack) - 1])
  THEN { [ vm |-> runtimeError(v, "Operands must be numbers."),
           result |-> "INTERPRET_RUNTIME_ERROR" ] }
  ELSE IF roundDouble(v.stack[Len(v.stack)].as) = 0
  THEN { [ vm |-> v, result |-> "CRASHED" ] }
         \cup { [ vm |-> [ v EXCEPT !.stack = Append(SubSeq(@, 1, Len(@) - 2),
                                                     NUMBER_VAL(Quarters * r)) ],
                  result |-> "NONE" ] : r \in Remainders }
  ELSE { [ vm |-> [ v EXCEPT !.stack =
                      Append(SubSeq(@, 1, Len(@) - 2),
                             NUMBER_VAL(Quarters
                                          * remainder(roundDouble(@[Len(@) - 1].as),
                                                      roundDouble(@[Len(@)].as)))) ],
           result |-> "NONE" ] }

ModuloOperands ==
  { NUMBER_VAL(n) : n \in (0 - MaxOperand)..MaxOperand }
    \cup { NilValue, BOOL_VAL(TRUE), OBJ_VAL(ObjString("s")) }
\* a chunk whose first instruction is OP_MODULO
ModuloChunk ==
  [ name |-> "", code |-> << "OP_MODULO", "OP_RETURN" >>, constants |-> << >> ]

\* run executes OP_MODULO
OpModulo ==
  /\ interpreted = << >>
  /\ \E done \in binaryIntOp(vm) :
       /\ vm' = [ done.vm EXCEPT !.frames =
                    [ f \in DOMAIN @ |-> [ @[f] EXCEPT !.ip = @ + 1 ] ] ]
       /\ interpreted' = << [ at |-> vm, after |-> done.vm, instruction |-> "OP_MODULO",
                              result |-> done.result ] >>
  /\ UNCHANGED << lines, line, output, parser, compiling, heapVars, storageVars >>

\* the VM in front of an OP_MODULO with two values on the stack
InitModulo ==
  /\ InitHeap /\ program = << >> /\ ip = 1 /\ NoStorage
  /\ \E a \in ModuloOperands, b \in ModuloOperands :
       vm = [ initVM EXCEPT !.stack = << a, b >>,
                            !.frames = << [ function |-> ModuloChunk, ip |-> 0,
                                            slots |-> 0 ] >> ]
  /\ lines = << >> /\ line = 0
  /\ output = << >> /\ interpreted = << >>
  /\ parser = << >> /\ compiling = "idle"

SpecModulo == InitModulo /\ [][OpModulo]_vars

\* the whole number next to a double, halves rounded up: floor(value + 0.5)
nearest(value) == (value + Quarters \div 2) \div Quarters

\* C39: OP_MODULO on two numbers pushes the remainder, with the sign of the
\* dividend, of floor(a + 0.5) and floor(b + 0.5), for negative operands and
\* operands with a fraction too, and on an operand that is no number it is a
\* runtime error
C39_ModuloOfRounded ==
  interpreted # << >> =>
    \E a \in { interpreted[1].at.stack[1] }, b \in { interpreted[1].at.stack[2] } :
      IF ~IS_NUMBER(a) \/ ~IS_NUMBER(b)
      THEN /\ interpreted[1].result = "INTERPRET_RUNTIME_ERROR"
           /\ vm.stack = << >>
      ELSE nearest(b.as) # 0 =>
             /\ interpreted[1].result = "NONE"
             /\ vm.stack = << NUMBER_VAL(Quarters * remainder(nearest(a.as), nearest(b.as))) >>
(***************************************************************************)
(* Sessions of nested loops, with break and continue after an inner loop    *)
(* and outside every loop.                                                  *)
(***************************************************************************)
LoopHead == << "var", "n", "=", "0", ";" >>
\* the statement after the inner loop: if (n == 2) <jump>; print n;
AfterInner(jump) ==
  << "if", "(", "n", "==", "2", ")", jump, ";", "print", "n", ";" >>
\* var n = 0;
\* while (n < 3) { n = n + 1; while (n == 1) n = 2;
\*                 if (n == 2) <jump>; print n; } print 9;
AfterWhile(jump) ==
  LoopHead \o << "while", "(", "n", "<", "3", ")", "{", "n", "=", "n", "+", "1", ";",
                 "while", "(", "n", "==", "1", ")", "n", "=", "2", ";" >>
           \o AfterInner(jump) \o << "}", "print", "9", ";" >>
\* the same with the inner loop  for (; n == 1; n = 2) { }
AfterFor(jump) ==
  LoopHead \o << "while", "(", "n", "<", "3", ")", "{", "n", "=", "n", "+", "1", ";",
                 "for", "(", ";", "n", "==", "1", ";", "n", "=", "2", ")", "{", "}" >>
           \o AfterInner(jump) \o << "}", "print", "9", ";" >>
\* the outer loop a for, the inner loop left by a break of its own:
\* for (; n < 3;) { n = n + 1; while (true) { break; } if (n == 2) <jump>; print n; }
AfterBreak(jump) ==
  LoopHead \o << "for", "(", ";", "n", "<", "3", ";", ")", "{", "n", "=", "n", "+", "1", ";",
                 "while", "(", "true", ")", "{", "break", ";", "}" >>
           \o AfterInner(jump) \o << "}", "print", "9", ";" >>
\* for (;;) { for (;;) break; break; } print 9;   two loops that start at the
\* same offset
SameStart ==
  << "for", "(", ";", ";", ")", "{", "for", "(", ";", ";", ")", "break", ";",
     "break", ";", "}", "print", "9", ";" >>
NestedSources ==
  { make[jump] : make \in { [ jump \in { "break", "continue" } |-> AfterWhile(jump) ],
                            [ jump \in { "break", "continue" } |-> AfterFor(jump) ],
                            [ jump \in { "break", "continue" } |-> AfterBreak(jump) ] },
                 jump \in { "break", "continue" } }
\* <jump>;   while (false) { } <jump>;   for (;;) { } ... and a function in a loop:
\* while (false) { fun f() { <jump>; } }
Outside(jump) ==
  { << jump, ";" >>,
    << "while", "(", "false", ")", "{", "}", jump, ";" >>,
    << "for", "(", ";", "false", ";", ")", "{", "}", jump, ";" >>,
    << "while", "(", "false", ")", "{", "fun", "f", "(", ")", "{", jump, ";", "}", "}" >>,
    << "for", "(", ";", ";", ")", "{", "fun", "f", "(", ")", "{", jump, ";", "}", "}" >> }
OutsideSources == Outside("break") \cup Outside("continue")

LoopSessions ==
  { << source >> : source \in NestedSources \cup OutsideSources \cup { SameStart } }

InitLoop ==
  /\ InitHeap /\ program = << >> /\ ip = 1 /\ NoStorage
  /\ vm = initVM
  /\ lines \in LoopSessions
  /\ line = 1
  /\ output = << >>
  /\ interpreted = << >>
  /\ parser = initParser
  /\ compiling = "idle"

SpecLoop == InitLoop /\ [][NextLang]_vars

\* the marks of a kind between two marks
marksBetween(marks, i, j, at) == { k \in (i + 1)..(j - 1) : marks[k].at = at }
\* the entry of the loop statement that returned at mark j: the nearest entry
\* before it with as many entries as returns in between
opened(marks, j) ==
  CHOOSE i \in 1..(j - 1) :
    /\ marks[i].at = "loopOpen"
    /\ Cardinality(marksBetween(marks, i, j, "loopOpen"))
         = Cardinality(marksBetween(marks, i, j, "loopClosed"))
    /\ \A k \in (i + 1)..(j - 1) :
         marks[k].at = "loopOpen" =>
           Cardinality(marksBetween(marks, k, j, "loopOpen"))
             # Cardinality(marksBetween(marks, k, j, "loopClosed"))
\* whileStatement and forStatement returned with loopStart, loopEnd and
\* loopDepth as they were at their entry
loopsRestored(marks) ==
  \A j \in DOMAIN marks :
    marks[j].at = "loopClosed" =>
      /\ marks[opened(marks, j)].function = marks[j].function
      /\ marks[opened(marks, j)].loop = marks[j].loop
      /\ marks[opened(marks, j)].end = marks[j].end
      /\ marks[opened(marks, j)].depth = marks[j].depth
\* outside every loop loopStart is -1
outsideIsNoLoop(marks) ==
  \A j \in DOMAIN marks :
    marks[j].at \in { "loopOpen", "loopClosed" } =>
      (marks[j].depth = 0 <=> marks[j].loop = -1)
outsideMessage(jump) ==
  IF jump = "break" THEN "Cannot use 'break' outside of a loop."
  ELSE "Cannot use 'continue' outside of a loop."
\* what the nested sources print: continue skips print 2 and the outer loop
\* goes on, break leaves the outer loop; the inner loop of AfterWhile and
\* AfterFor takes n from 1 to 2
printedWith(source, jump) ==
  (IF source = AfterBreak(jump) THEN << NUMBER_VAL(1) >> ELSE << >>)
    \o (IF jump = "continue" THEN << NUMBER_VAL(3) >> ELSE << >>)
    \o << NUMBER_VAL(9) >>

\* C40: whileStatement and forStatement return with the Compiler's loopStart,
\* loopEnd and loopDepth as they were at entry; so a break or continue after
\* an inner loop acts on the outer loop, and outside every loop, also in a
\* function declared in a loop, loopStart is -1 and break and continue are
\* reported as compile errors
C40_LoopStateRestored ==
  interpreted # << >> =>
    /\ loopsRestored(parser.marks)
    /\ outsideIsNoLoop(parser.marks)
    /\ \A jump \in { "break", "continue" } :
         /\ lines[1] \in { AfterWhile(jump), AfterFor(jump), AfterBreak(jump) } =>
              /\ ~parser.hadError
              /\ line = 2 => lastCall.result = "INTERPRET_OK" /\ output = printedWith(lines[1], jump)
         /\ lines[1] \in Outside(jump) =>
              /\ lastCall.result = "INTERPRET_COMPILE_ERROR"
              /\ \E e \in DOMAIN parser.errors :
                   parser.errors[e].message = outsideMessage(jump)
    /\ lines[1] = SameStart =>
         /\ ~parser.hadError
         /\ line = 2 => lastCall.result = "INTERPRET_OK" /\ output = << NUMBER_VAL(9) >>
\* the continue after the inner for loop has run: the outer loop went on to
\* print 3
C40_Witness ==
  /\ lines = << AfterFor("continue") >>
  /\ line = 2
  /\ output = << NUMBER_VAL(3), NUMBER_VAL(9) >>
  /\ \E j \in DOMAIN parser.marks :
       /\ parser.marks[j].at = "loopClosed"
       /\ parser.marks[j].depth = 1
       /\ parser.marks[j].loop # -1

=============================================================================
